---- MODULE Spec2Model ----
(***************************************************************************)
(* A model of the ai-governance tool: the policy engine (path globs and    *)
(* sensitive-content patterns), the scanner that turns a policy and a file *)
(* into a verdict, the SQLite audit log, and the two refactor flows        *)
(* (cli.refactor and BatchProcessor.process_files) that combine them with  *)
(* the generation call and the diff manager.                               *)
(*                                                                         *)
(* Strings are sequences of one-character strings.  Formatted messages     *)
(* (verdict reasons, the stored findings summary) are records or           *)
(* sequences of their variable parts, in the order the format string puts  *)
(* them.                                                                   *)
(***************************************************************************)
EXTENDS Integers, Sequences, FiniteSets, TLC

VARIABLES
    pc,          \* "start" until the command of this process has run, then "done"
    policy,      \* PolicyEngine.policy: the loaded policy dictionary
    fs,          \* the file system: path -> file state
    scan_out,    \* outcome of the last Scanner.scan_file call
    db_columns,  \* columns of the audit_log table in the database file ({}: no table)
    audit_log,   \* rows of the audit_log table, in insertion order
    seq_id,      \* sqlite_sequence value of audit_log (largest id ever used)
    now,         \* the UTC wall clock read by log_action
    returned,    \* ids returned by log_action so far, in call order
    audit_out,   \* what the last AuditLogger call returned
    run,         \* events of the last refactor flow run, in program order
    batch,       \* BatchResult of the last process_files call
    backups,     \* paths of which DiffManager.create_backup made a copy
    conn,        \* the open database connection of each process that logs concurrently
    calc         \* arguments and results of the last cost calculation

vars == <<pc, policy, fs, scan_out, db_columns, audit_log, seq_id, now, returned, audit_out,
          run, batch, backups, conn, calc>>

(***************************************************************************)
(* Bounds of the model.                                                    *)
(***************************************************************************)
MaxPieces == 2      \* a file's bytes are at most this many pieces
MaxPatterns == 2    \* sensitive patterns declared by a policy
MaxGlobs == 2       \* blocked_file_patterns declared by a policy
MaxFiles == 2       \* files handed to one process_files call
MaxLog == 3         \* rows the audit log may grow to
MaxPrior == 1       \* rows already in the audit log when a command starts
SecondTicks == 2    \* ticks of the clock that make a second
MaxScans == 3       \* scan_file calls of one Scanner
MaxProcs == 2       \* processes that use one audit database at the same time
MaxAppends == 2     \* log_action calls the concurrent processes make between them
MaxTokens == 3      \* largest input or output token count of one cost calculation
MaxTimed == 2       \* log_action calls before the queries by timeframe

(***************************************************************************)
(* Program constants.                                                      *)
(***************************************************************************)
ExampleLen == 10    \* match[:10]
Million == 1000000  \* the divisor of _calculate_cost: prices are per million tokens
HourSeconds == 3600 \* strftime('%Y-%m-%d %H:00', ...): the seconds of an hour
DayHours == 24      \* datetime('now', '-1 day'): the hours of a day

HourTicks == HourSeconds * SecondTicks
DayTicks == DayHours * HourTicks
MaxExamples == 3    \* matches[:3]

(***************************************************************************)
(* Strings.                                                                *)
(***************************************************************************)
Rep(c, n) == [i \in 1..n |-> c]

Min(a, b) == IF a < b THEN a ELSE b

RECURSIVE Flatten(_)
Flatten(ss) == IF ss = <<>> THEN <<>> ELSE Head(ss) \o Flatten(Tail(ss))

Range(s) == {s[i] : i \in 1..Len(s)}

BadByte == "0xFF"   \* a byte that is not valid UTF-8

Ellipsis == <<".", ".", ".">>

\* str.lower() / re.IGNORECASE folding on the model's alphabet
Fold(c) == CASE c = "K" -> "k" [] c = "V" -> "v" [] OTHER -> c

(***************************************************************************)
(* fnmatch.fnmatch(filepath, pattern) on POSIX: the whole path must match; *)
(* "*" matches any run of characters ("/" included), "?" one character,    *)
(* anything else itself.  Bracket classes are not in the model's globs.    *)
(***************************************************************************)
RECURSIVE fnmatch(_, _)
fnmatch(name, pat) ==
    IF pat = <<>> THEN name = <<>>
    ELSE IF Head(pat) = "*"
         THEN \E k \in 0..Len(name) : fnmatch(SubSeq(name, k + 1, Len(name)), Tail(pat))
    ELSE IF name = <<>> THEN FALSE
    ELSE IF Head(pat) = "?" THEN fnmatch(Tail(name), Tail(pat))
    ELSE Head(pat) = Head(name) /\ fnmatch(Tail(name), Tail(pat))

(***************************************************************************)
(* Regular expressions.  A pattern is a sequence of atoms; an atom is a    *)
(* character class, taken once or one-or-more times (greedy), and is       *)
(* optionally a capture group: kv+, k(v+), (k)(v+), [ek].  A pattern source  *)
(* that re.compile rejects has bad = TRUE.                                 *)
(***************************************************************************)
Atom(cls, plus, grp) == [cls |-> cls, plus |-> plus, grp |-> grp]

Regex(atoms) == [atoms |-> atoms, bad |-> FALSE]

BadRegex == [atoms |-> <<>>, bad |-> TRUE]

\* number of consecutive characters of s from pos on that the class accepts
RECURSIVE RunLen(_, _, _)
RunLen(cls, s, pos) ==
    IF pos > Len(s) \/ Fold(s[pos]) \notin cls THEN 0
    ELSE 1 + RunLen(cls, s, pos + 1)

\* Backtracking match of atoms k.. at pos: the end positions of the atoms
RECURSIVE MatchFrom(_, _, _, _)
RECURSIVE TryLen(_, _, _, _, _)
MatchFrom(atoms, k, s, pos) ==
    IF k > Len(atoms) THEN [ok |-> TRUE, ends |-> <<>>]
    ELSE LET a == atoms[k]
             r == RunLen(a.cls, s, pos)
         IN  TryLen(atoms, k, s, pos, IF a.plus THEN r ELSE Min(r, 1))

TryLen(atoms, k, s, pos, n) ==
    IF n = 0 THEN [ok |-> FALSE, ends |-> <<>>]
    ELSE LET rest == MatchFrom(atoms, k + 1, s, pos + n)
         IN  IF rest.ok THEN [ok |-> TRUE, ends |-> <<pos + n>> \o rest.ends]
             ELSE TryLen(atoms, k, s, pos, n - 1)

GroupIdx(atoms) == SelectSeq([i \in 1..Len(atoms) |-> i], LAMBDA i : atoms[i].grp)

\* What re.findall yields for one match: the whole match when the pattern
\* has no group, the group's text when it has one, a tuple of the groups'
\* texts when it has several.
StrVal(s) == [tuple |-> FALSE, str |-> s, items |-> <<>>]

TupleVal(items) == [tuple |-> TRUE, str |-> <<>>, items |-> items]

MatchValue(atoms, s, pos, ends) ==
    LET start(i) == IF i = 1 THEN pos ELSE ends[i - 1]
        text(i) == SubSeq(s, start(i), ends[i] - 1)
        g == GroupIdx(atoms)
    IN  IF Len(g) = 0 THEN StrVal(SubSeq(s, pos, ends[Len(ends)] - 1))
        ELSE IF Len(g) = 1 THEN StrVal(text(g[1]))
        ELSE TupleVal([j \in 1..Len(g) |-> text(g[j])])

\* regex.findall(content): leftmost non-overlapping matches, in order
RECURSIVE FindAllFrom(_, _, _)
FindAllFrom(atoms, s, pos) ==
    IF pos > Len(s) THEN <<>>
    ELSE LET m == MatchFrom(atoms, 1, s, pos)
         IN  IF m.ok
             THEN <<MatchValue(atoms, s, pos, m.ends)>>
                      \o FindAllFrom(atoms, s, m.ends[Len(m.ends)])
             ELSE FindAllFrom(atoms, s, pos + 1)

findall(regex, s) == FindAllFrom(regex.atoms, s, 1)

\* len(match): characters of a string, items of a tuple
PyLen(m) == IF m.tuple THEN Len(m.items) ELSE Len(m.str)

(***************************************************************************)
(* PolicyEngine                                                            *)
(***************************************************************************)
\* _compile_patterns: the declared patterns that compile, in declaration
\* order, with the severity defaulting to medium
CompiledPattern(info) ==
    [name |-> info.name,
     regex |-> info.pattern,
     description |-> info.description,
     severity |-> IF info.severity = "absent" THEN "medium" ELSE info.severity]

\* _compile_patterns giving up at the first pattern that does not compile
compiled_patterns_until_bad(pol) ==
    LET declared == pol.sensitive_patterns
        bad == {i \in 1..Len(declared) : declared[i].pattern.bad}
        n == IF bad = {} THEN Len(declared)
             ELSE (CHOOSE i \in bad : \A j \in bad : i <= j) - 1
    IN  [i \in 1..n |-> CompiledPattern(declared[i])]

compiled_patterns(pol) ==
    LET ok == SelectSeq(pol.sensitive_patterns, LAMBDA info : ~info.pattern.bad)
    IN  [i \in 1..Len(ok) |-> CompiledPattern(ok[i])]

\* get_policy_info: the counts are those of the policy as declared
get_policy_info(pol) ==
    [blocked_patterns_count |-> Len(pol.blocked_file_patterns),
     sensitive_patterns_count |-> Len(pol.sensitive_patterns)]

\* is_file_blocked reporting the last matching glob instead of the first
is_file_blocked_last(pol, filepath) ==
    LET globs == pol.blocked_file_patterns
        hits == {i \in 1..Len(globs) : fnmatch(filepath, globs[i])}
    IN  [is_blocked |-> hits # {},
         pattern |-> IF hits # {} THEN globs[CHOOSE i \in hits : \A j \in hits : j <= i]
                     ELSE <<>>]

\* is_file_blocked: the index of the first blocked glob the path matches, 0 if none
RECURSIVE FirstMatch(_, _, _)
FirstMatch(filepath, globs, i) ==
    IF i > Len(globs) THEN 0
    ELSE IF fnmatch(filepath, globs[i]) THEN i
    ELSE FirstMatch(filepath, globs, i + 1)

is_file_blocked(pol, filepath) ==
    LET i == FirstMatch(filepath, pol.blocked_file_patterns, 1)
    IN  [is_blocked |-> i # 0,
         pattern |-> IF i # 0 THEN pol.blocked_file_patterns[i] ELSE <<>>]

\* match[:10] + "..." if len(match) > 10 else match
Redact(m) ==
    IF PyLen(m) > ExampleLen
    THEN StrVal(SubSeq(m.str, 1, ExampleLen) \o Ellipsis)
    ELSE m

\* matches[:3], redacted
Examples(matches) ==
    [i \in 1..Min(Len(matches), MaxExamples) |-> Redact(matches[i])]

Finding(cp, matches) ==
    [pattern |-> cp.name,
     description |-> cp.description,
     severity |-> cp.severity,
     match_count |-> Len(matches),
     examples |-> Examples(matches)]

\* scan_content: one finding per compiled pattern that matches, in the
\* order of the compiled patterns.  tuple + str raises TypeError when a
\* match is a tuple of more than 10 groups.
scan_content(pol, content) ==
    LET cps == compiled_patterns(pol)
        ms == [i \in 1..Len(cps) |-> findall(cps[i].regex, content)]
        hit == SelectSeq([i \in 1..Len(cps) |-> i], LAMBDA i : ms[i] # <<>>)
    IN  [raised |-> \E i \in 1..Len(cps) :
                       \E j \in 1..Min(Len(ms[i]), MaxExamples) :
                           ms[i][j].tuple /\ PyLen(ms[i][j]) > ExampleLen,
         findings |-> [n \in 1..Len(hit) |-> Finding(cps[hit[n]], ms[hit[n]])]]

(***************************************************************************)
(* The file system.  A path is missing, a directory or a regular file; a   *)
(* regular file has bytes and may be unreadable (open fails with           *)
(* PermissionError).  st_size is the number of bytes.                      *)
(***************************************************************************)
Missing == [kind |-> "missing", readable |-> FALSE, bytes |-> <<>>]

Directory == [kind |-> "dir", readable |-> TRUE, bytes |-> <<>>]

RegularFile(bytes, readable) == [kind |-> "file", readable |-> readable, bytes |-> bytes]

\* open(..., encoding='utf-8').read(): the bytes decode unless one of them
\* is not valid UTF-8; the model's valid bytes are ASCII and decode to
\* themselves
Decodable(bytes) == \A i \in 1..Len(bytes) : bytes[i] # BadByte

decode(bytes) == [i \in 1..Len(bytes) |-> bytes[i]]

(***************************************************************************)
(* Scanner.scan_file                                                       *)
(***************************************************************************)
Reason(kind, arg, parts) == [kind |-> kind, arg |-> arg, parts |-> parts]

Verdict(allowed, reason, findings, file_size, error, has_content, content) ==
    [allowed |-> allowed, reason |-> reason, findings |-> findings,
     file_size |-> file_size, error |-> error,
     has_content |-> has_content, content |-> content]

NoVerdict == Verdict(FALSE, Reason("none", <<>>, <<>>), <<>>, 0, FALSE, FALSE, <<>>)

\* the reason built from the findings: the critical patterns, then the high ones
PatternsOf(findings, severity) ==
    LET sel == SelectSeq(findings, LAMBDA f : f.severity = severity)
    IN  [i \in 1..Len(sel) |-> sel[i].pattern]

\* the reason listing the high patterns before the critical ones
ReasonParts_high_first(findings) ==
    LET critical == PatternsOf(findings, "critical")
        high == PatternsOf(findings, "high")
    IN  (IF high # <<>> THEN <<[label |-> "High", patterns |-> high]>> ELSE <<>>)
        \o (IF critical # <<>> THEN <<[label |-> "Critical", patterns |-> critical]>> ELSE <<>>)

ReasonParts(findings) ==
    LET critical == PatternsOf(findings, "critical")
        high == PatternsOf(findings, "high")
    IN  (IF critical # <<>> THEN <<[label |-> "Critical", patterns |-> critical]>> ELSE <<>>)
        \o (IF high # <<>> THEN <<[label |-> "High", patterns |-> high]>> ELSE <<>>)

\* The outcome of open() and read() on the file as it is at that moment
ReadError(o) ==
    CASE o.kind = "missing" -> <<"FileNotFoundError">>
      [] o.kind = "dir" -> <<"IsADirectoryError">>
      [] ~o.readable -> <<"PermissionError">>
      [] OTHER -> <<>>

Outcome(raised, verdict, opened, scanned) ==
    [raised |-> raised, verdict |-> verdict, opened |-> opened, scanned |-> scanned]

\* a verdict that blocks on critical and high findings only
content_verdict_lenient(findings, file_size, content) ==
    IF \E i \in 1..Len(findings) : findings[i].severity \in {"critical", "high"}
    THEN Verdict(FALSE, Reason("Sensitive content detected", <<>>, ReasonParts(findings)),
                 findings, file_size, FALSE, TRUE, content)
    ELSE Verdict(TRUE, Reason("No policy violations detected", <<>>, <<>>),
                 <<>>, file_size, FALSE, TRUE, content)

\* scan_file lines 92-124: the verdict on content that was read
content_verdict(findings, file_size, content) ==
    IF findings # <<>>
    THEN Verdict(FALSE, Reason("Sensitive content detected", <<>>, ReasonParts(findings)),
                 findings, file_size, FALSE, TRUE, content)
    ELSE Verdict(TRUE, Reason("No policy violations detected", <<>>, <<>>),
                 <<>>, file_size, FALSE, TRUE, content)

\* reading with errors='ignore': undecodable bytes are dropped, not reported
read_and_scan_ignore_errors(pol, file_size, o_open) ==
    IF ReadError(o_open) # <<>>
    THEN Outcome(FALSE,
                 Verdict(FALSE, Reason("Error reading file", ReadError(o_open), <<>>),
                         <<>>, file_size, TRUE, FALSE, <<>>), TRUE, FALSE)
    ELSE LET content == SelectSeq(o_open.bytes, LAMBDA b : b # BadByte)
             sc == scan_content(pol, content)
         IN  IF sc.raised
             THEN Outcome(TRUE, NoVerdict, TRUE, TRUE)
             ELSE Outcome(FALSE, content_verdict(sc.findings, file_size, content), TRUE, TRUE)

\* scan_file lines 68-124: open and read the file, then scan what was read
read_and_scan(pol, file_size, o_open) ==
    IF ReadError(o_open) # <<>>
    THEN Outcome(FALSE,
                 Verdict(FALSE, Reason("Error reading file", ReadError(o_open), <<>>),
                         <<>>, file_size, TRUE, FALSE, <<>>), TRUE, FALSE)
    ELSE IF ~Decodable(o_open.bytes)
    THEN Outcome(FALSE,
                 Verdict(FALSE, Reason("File is not a valid text file (binary content detected)", <<>>, <<>>),
                         <<>>, file_size, TRUE, FALSE, <<>>), TRUE, FALSE)
    ELSE LET content == decode(o_open.bytes)
             sc == scan_content(pol, content)
         IN  IF sc.raised
             THEN Outcome(TRUE, NoVerdict, TRUE, TRUE)
             ELSE Outcome(FALSE, content_verdict(sc.findings, file_size, content), TRUE, TRUE)

\* a scan_file that looks at the blocked globs before it looks for the file
scan_file_block_first(pol, filepath, o_exists, o_is_file, o_stat, o_open) ==
    LET blocked == is_file_blocked(pol, filepath)
    IN  IF blocked.is_blocked
        THEN Outcome(FALSE,
                     Verdict(FALSE,
                             Reason("File path matches blocked pattern", blocked.pattern, <<>>),
                             <<>>, Len(o_stat.bytes), FALSE, FALSE, <<>>), FALSE, FALSE)
        ELSE IF o_exists.kind = "missing"
        THEN Outcome(FALSE, Verdict(FALSE, Reason("File not found", filepath, <<>>),
                                    <<>>, 0, TRUE, FALSE, <<>>), FALSE, FALSE)
        ELSE IF o_is_file.kind # "file"
        THEN Outcome(FALSE, Verdict(FALSE, Reason("Not a file", filepath, <<>>),
                                    <<>>, 0, TRUE, FALSE, <<>>), FALSE, FALSE)
        ELSE read_and_scan(pol, Len(o_stat.bytes), o_open)

\* scan_file(filepath) under policy pol.  o_exists, o_is_file, o_stat and
\* o_open are the states of the file at the four moments scan_file looks
\* at it: Path.exists(), Path.is_file(), Path.stat() and open()/read().
\* The outcome is a verdict, or an exception that leaves scan_file.
scan_file(pol, filepath, o_exists, o_is_file, o_stat, o_open) ==
    IF o_exists.kind = "missing"
    THEN Outcome(FALSE, Verdict(FALSE, Reason("File not found", filepath, <<>>),
                                <<>>, 0, TRUE, FALSE, <<>>), FALSE, FALSE)
    ELSE IF o_is_file.kind # "file"
    THEN Outcome(FALSE, Verdict(FALSE, Reason("Not a file", filepath, <<>>),
                                <<>>, 0, TRUE, FALSE, <<>>), FALSE, FALSE)
    ELSE IF o_stat.kind = "missing"
    THEN Outcome(TRUE, NoVerdict, FALSE, FALSE)     \* stat() raises FileNotFoundError
    ELSE LET file_size == Len(o_stat.bytes)
             blocked == is_file_blocked(pol, filepath)
         IN  IF blocked.is_blocked
             THEN Outcome(FALSE,
                          Verdict(FALSE,
                                  Reason("File path matches blocked pattern", blocked.pattern, <<>>),
                                  <<>>, file_size, FALSE, FALSE, <<>>), FALSE, FALSE)
             ELSE read_and_scan(pol, file_size, o_open)

\* a scanner that answers every second call with the outcome of the call before
ScanStable_every_second_cached(pol, files, filepath) ==
    IF Len(run) % 2 = 1 /\ scan_out.called THEN scan_out.out
    ELSE scan_file(pol, filepath, files[filepath], files[filepath], files[filepath],
                   files[filepath])

\* scan_file on a file that nothing changes during the call
ScanStable(pol, files, filepath) ==
    scan_file(pol, filepath, files[filepath], files[filepath], files[filepath], files[filepath])

(***************************************************************************)
(* The inputs the model draws from.                                        *)
(***************************************************************************)
SeqsUpTo(S, n) == UNION {[1..k -> S] : k \in 0..n}

Injective(q) == \A i, j \in 1..Len(q) : q[i] = q[j] => i = j

Paths == { <<"a", "/", "s">>, <<"a", "/", "c">> }

\* "*s*" matches a/s only, "a/?" matches both paths
GlobSet == { <<"*", "s", "*">>, <<"a", "/", "?">> }

\* The pieces a file's bytes are made of: two short secrets (the second in
\* upper case), a secret of 12 characters, plain text, an invalid byte
ShortPiece == <<"k", "v", " ", "K", "V", " ">>

LongPiece == <<"k">> \o Rep("v", ExampleLen + 1) \o <<" ">>

PlainPiece == <<"e">>

PieceSet == {ShortPiece, LongPiece, PlainPiece, <<BadByte>>}

Contents(n) == {Flatten(ps) : ps \in SeqsUpTo(PieceSet, n)}

\* what is in an unreadable file cannot matter to a reader: one piece at most
FileStates(n) ==
    {Missing, Directory}
        \cup {RegularFile(b, TRUE) : b \in Contents(n)}
        \cup {RegularFile(b, FALSE) : b \in Contents(1)}

\* The sensitive patterns a policy may declare
PatternInfo(name, pattern, severity) ==
    [name |-> name, pattern |-> pattern, description |-> <<"d">>, severity |-> severity]

PatternCatalog ==
    { PatternInfo("password_pattern",
                  Regex(<<Atom({"k"}, FALSE, FALSE), Atom({"v"}, TRUE, FALSE)>>), "critical"),
      PatternInfo("api_key",
                  Regex(<<Atom({"k"}, FALSE, FALSE), Atom({"v"}, TRUE, TRUE)>>), "high"),
      PatternInfo("secret_pair",
                  Regex(<<Atom({"k"}, FALSE, TRUE), Atom({"v"}, TRUE, TRUE)>>), "absent"),
      PatternInfo("phone", Regex(<<Atom({"e", "k"}, FALSE, FALSE)>>), "low"),
      PatternInfo("broken", BadRegex, "high") }

\* sensitive_patterns is a mapping: its names are distinct
PatternLists(n) ==
    {q \in SeqsUpTo(PatternCatalog, n) : Injective([i \in 1..Len(q) |-> q[i].name])}

Policy(globs, patterns) ==
    [blocked_file_patterns |-> globs, sensitive_patterns |-> patterns]

Policies == {Policy(g, q) : g \in SeqsUpTo(GlobSet, MaxGlobs), q \in PatternLists(MaxPatterns)}

(***************************************************************************)
(* State shared by the specifications.                                     *)
(***************************************************************************)
NoScan == [called |-> FALSE, filepath |-> <<>>, out |-> Outcome(FALSE, NoVerdict, FALSE, FALSE)]

EmptyBatch ==
    [total_files |-> 0, successful |-> 0, failed |-> 0, blocked |-> 0, skipped |-> 0,
     file_results |-> <<>>, total_cost |-> 0, total_tokens |-> 0]

\* the columns of the audit_log table of the current schema
OldColumns ==
    {"id", "timestamp", "filepath", "action", "status", "reason", "tokens_used", "cost",
     "findings", "model", "target_description"}

AllColumns == OldColumns \cup {"original_code", "refactored_code"}

\* what a call of an AuditLogger method was given (limit) and returned: the
\* row id (log_action), the rows (the log queries) or the statistics; for
\* __init__, the columns it found in the table
AuditCall(op, id, limit, rows, stats) ==
    [op |-> op, id |-> id, limit |-> limit, rows |-> rows, stats |-> stats]

NoAuditCall == AuditCall("none", 0, 0, <<>>, <<>>)

InitRest ==
    /\ pc = "start"
    /\ scan_out = NoScan
    /\ db_columns = AllColumns
    /\ audit_log = <<>>
    /\ seq_id = 0
    /\ now = 0
    /\ returned = <<>>
    /\ audit_out = NoAuditCall
    /\ run = <<>>
    /\ batch = EmptyBatch
    /\ backups = {}
    /\ conn = <<>>
    /\ calc = <<>>

(***************************************************************************)
(* The world a command runs in, threaded through the operations below.     *)
(***************************************************************************)
World ==
    [fs |-> fs, db_columns |-> db_columns, audit_log |-> audit_log, seq_id |-> seq_id,
     now |-> now, returned |-> returned, run |-> run, backups |-> backups]

IoFaults == {"none", "backup_fails", "save_fails", "log_fails"}

\* One step of a flow, as the flow performs it
Event(ev, idx, file, verdict, code, status, findings, id) ==
    [ev |-> ev, idx |-> idx, file |-> file, verdict |-> verdict, code |-> code,
     status |-> status, findings |-> findings, id |-> id]

emit(w, e) == [w EXCEPT !.run = Append(@, e)]

(***************************************************************************)
(* AuditLogger                                                             *)
(***************************************************************************)
\* _init_database with DROP TABLE before CREATE TABLE: the rows are lost
init_database_recreate(w) ==
    [w EXCEPT !.db_columns = AllColumns, !.audit_log = <<>>, !.seq_id = 0]

\* _init_database adding original_code only
init_database_one_column(w) ==
    [w EXCEPT !.db_columns = IF @ = {} THEN AllColumns ELSE @ \cup {"original_code"}]

\* _init_database: CREATE TABLE IF NOT EXISTS, then ALTER TABLE ADD COLUMN
\* for each of original_code and refactored_code that the table lacks
init_database(w) ==
    [w EXCEPT !.db_columns =
        IF @ = {} THEN AllColumns ELSE @ \cup {"original_code", "refactored_code"}]

\* PRAGMA table_info(audit_log) after CREATE TABLE IF NOT EXISTS: the
\* columns of the table that was there, or of the one just created
table_info(w) == IF w.db_columns = {} THEN AllColumns ELSE w.db_columns

\* INSERT INTO audit_log (timestamp, ..., refactored_code) fails with
\* sqlite3.OperationalError when the table lacks a column it names
insert_works(w) == AllColumns \ {"id"} \subseteq w.db_columns

\* the findings summary with the examples written into it
FindingsStr_with_examples(findings) ==
    [i \in 1..Len(findings) |->
        [pattern |-> findings[i].pattern, severity |-> findings[i].severity,
         match_count |-> findings[i].match_count, examples |-> findings[i].examples]]

\* findings_str: "; ".join of "{pattern}({severity}): {match_count} matches";
\* None (here the empty sequence) when there are no findings
FindingsStr(findings) ==
    [i \in 1..Len(findings) |->
        [pattern |-> findings[i].pattern, severity |-> findings[i].severity,
         match_count |-> findings[i].match_count]]

NoReason == Reason("NULL", <<>>, <<>>)

\* the arguments of log_action, with the defaults of those a caller omits
LogArgs(filepath, action, status, reason, tokens_used, cost, findings, model, target) ==
    [filepath |-> filepath, action |-> action, status |-> status, reason |-> reason,
     tokens_used |-> tokens_used, cost |-> cost, findings |-> findings, model |-> model,
     target_description |-> target, original_code |-> "NULL", refactored_code |-> "NULL"]

\* the row the INSERT of log_action writes
NewRow(id, timestamp, a) ==
    [id |-> id,
     timestamp |-> timestamp,
     filepath |-> a.filepath,
     action |-> a.action,
     status |-> a.status,
     reason |-> a.reason,
     tokens_used |-> a.tokens_used,
     cost |-> a.cost,
     findings |-> FindingsStr(a.findings),
     model |-> a.model,
     target_description |-> a.target_description,
     original_code |-> a.original_code,
     refactored_code |-> a.refactored_code]

\* log_action: one INSERT; AUTOINCREMENT gives the row the id after the
\* largest ever used, the timestamp is the clock at the call.  dt is the
\* time that passes before the clock is read again.
log_action(w, a, dt) ==
    LET row == NewRow(w.seq_id + 1, w.now, a)
    IN  [w EXCEPT !.audit_log = Append(@, row),
                  !.seq_id = row.id,
                  !.now = @ + dt,
                  !.returned = Append(@, row.id)]

\* The orders in which ORDER BY timestamp DESC may deliver the rows: rows of
\* equal timestamp come in an order SQL leaves open
DescOrders(rows) ==
    {q \in [1..Len(rows) -> 1..Len(rows)] :
        /\ Injective(q)
        /\ \A i, j \in 1..Len(rows) : i < j => rows[q[i]].timestamp >= rows[q[j]].timestamp}

\* SELECT * ... ORDER BY timestamp DESC LIMIT limit: the possible results
select_desc(rows, limit) ==
    {[i \in 1..Min(limit, Len(rows)) |-> rows[q[i]]] : q \in DescOrders(rows)}

get_recent_logs(w, limit) == select_desc(w.audit_log, limit)

get_logs_by_status(w, status, limit) ==
    select_desc(SelectSeq(w.audit_log, LAMBDA r : r.status = status), limit)

\* SUM(column) over rows; SQL gives NULL for no rows, which "or 0" turns to 0
RECURSIVE SumOf(_, _)
SumOf(rows, column) ==
    IF rows = <<>> THEN 0 ELSE rows[1][column] + SumOf(Tail(rows), column)

\* round(x, 4) of a float sum that amounts to c millionths: the nearest
\* hundred; halfway between two hundreds the binary value of the sum, which
\* is a little under or over c / 1e6, decides, so either may result
Round4(c) ==
    LET q == c \div 100
        r == c % 100
    IN  IF r = 50 THEN {100 * q, 100 * (q + 1)}
        ELSE IF r > 50 THEN {100 * (q + 1)}
        ELSE {100 * q}

\* the totals query counting the successful requests only
totals_success_only(rows) ==
    LET ok == SelectSeq(rows, LAMBDA r : r.status = "success")
    IN  [total_tokens |-> SumOf(ok, "tokens_used"), total_cost |-> SumOf(ok, "cost"),
         total_requests |-> Len(ok)]

\* SELECT SUM(tokens_used), SUM(cost), COUNT(*) FROM audit_log WHERE ...
totals(rows) ==
    [total_tokens |-> SumOf(rows, "tokens_used"), total_cost |-> SumOf(rows, "cost"),
     total_requests |-> Len(rows)]

\* SELECT status, COUNT(*) ... GROUP BY status, as a dictionary
status_counts(rows) ==
    [st \in {rows[i].status : i \in 1..Len(rows)} |->
        Cardinality({i \in 1..Len(rows) : rows[i].status = st})]

\* a WHERE clause that takes the rows at least as late as the limit
time_filter_inclusive(w, timeframe) ==
    LET days == CASE timeframe = "day" -> 1 [] timeframe = "week" -> 7
                  [] timeframe = "month" -> 30 [] OTHER -> 0
    IN  SelectSeq(w.audit_log,
                  LAMBDA r : days = 0 \/ r.timestamp >= w.now - days * DayTicks)

\* datetime(t): the time as 'YYYY-MM-DD HH:MM:SS', its fraction of a second
\* cut off
datetime(t) == t - (t % SecondTicks)

\* the WHERE clause of a timeframe: datetime(timestamp) later than
\* datetime('now', '-1 day'), '-7 days' or '-30 days', or every row
time_filter(w, timeframe) ==
    LET days == CASE timeframe = "day" -> 1 [] timeframe = "week" -> 7
                  [] timeframe = "month" -> 30 [] OTHER -> 0
    IN  SelectSeq(w.audit_log,
                  LAMBDA r : days = 0 \/ datetime(r.timestamp) > datetime(w.now - days * DayTicks))

get_statistics(w) ==
    LET t == totals(w.audit_log)
    IN  {[total_requests |-> t.total_requests,
          total_tokens |-> t.total_tokens,
          total_cost |-> total_cost,
          status_counts |-> status_counts(w.audit_log),
          recent_24h |-> Len(time_filter(w, "day"))] : total_cost \in Round4(t.total_cost)}

get_statistics_by_timeframe(w, timeframe) ==
    LET rows == time_filter(w, timeframe)
        t == totals(rows)
    IN  {[total_requests |-> t.total_requests,
          total_tokens |-> t.total_tokens,
          total_cost |-> total_cost,
          status_counts |-> status_counts(rows),
          timeframe |-> timeframe] : total_cost \in Round4(t.total_cost)}

\* get_logs_by_timeframe: the rows of the timeframe, ORDER BY timestamp DESC
\* LIMIT limit
get_logs_by_timeframe(w, timeframe, limit) == select_desc(time_filter(w, timeframe), limit)

\* a date string that names the day alone for every timeframe
date_format_daily(timeframe, t) == [day |-> t \div DayTicks, hour |-> 0]

\* strftime('%Y-%m-%d %H:00', timestamp) for 'day', strftime('%Y-%m-%d',
\* timestamp) otherwise: the day and the hour of the day, or the day alone
date_format(timeframe, t) ==
    IF timeframe = "day"
    THEN [day |-> t \div DayTicks, hour |-> (t % DayTicks) \div HourTicks]
    ELSE [day |-> t \div DayTicks, hour |-> 0]

\* date strings compare as the moments they name
DateBefore(x, y) == x.day < y.day \/ (x.day = y.day /\ x.hour < y.hour)

\* get_cost_over_time: GROUP BY the date string, ORDER BY date ASC, the
\* cost of each group rounded to 4 decimals
get_cost_over_time(w, timeframe) ==
    LET rows == time_filter(w, timeframe)
        dates == {date_format(timeframe, rows[i].timestamp) : i \in 1..Len(rows)}
        n == Cardinality(dates)
        asc == CHOOSE q \in [1..n -> dates] :
                   \A i, j \in 1..n : i < j => DateBefore(q[i], q[j])
        group(i) == SelectSeq(rows, LAMBDA r : date_format(timeframe, r.timestamp) = asc[i])
        costs == {c \in [1..n -> UNION {Round4(SumOf(group(i), "cost")) : i \in 1..n}] :
                     \A i \in 1..n : c[i] \in Round4(SumOf(group(i), "cost"))}
    IN  {[i \in 1..n |-> [date |-> asc[i],
                          cost |-> c[i],
                          tokens |-> SumOf(group(i), "tokens_used"),
                          requests |-> Len(group(i))]] : c \in costs}

(***************************************************************************)
(* AIClient                                                                *)
(***************************************************************************)
ModelName == "claude-sonnet-4-5-20250929"

\* str.lower() of one word of an error message
LowerWord(t) ==
    CASE t = "Quota" -> "quota" [] t = "Timeout" -> "timeout"
      [] t = "Connection" -> "connection" [] OTHER -> t

\* 'x' in error_str, the message being a sequence of words
Has(error_str, t) == t \in Range(error_str)

HasLower(error_str, t) == t \in {LowerWord(error_str[i]) : i \in 1..Len(error_str)}

\* a classification that looks for the quota words before the rate limit
parse_api_error_quota_first(error_str) ==
    IF Has(error_str, "insufficient_quota") \/ HasLower(error_str, "quota")
    THEN Reason("API quota exceeded", <<>>, <<>>)
    ELSE IF Has(error_str, "rate_limit_error") \/ Has(error_str, "429")
    THEN Reason("Rate limit exceeded", <<>>, <<>>)
    ELSE IF \/ Has(error_str, "invalid_api_key") \/ Has(error_str, "authentication_error")
            \/ Has(error_str, "401")
    THEN Reason("Invalid API key", <<>>, <<>>)
    ELSE IF Has(error_str, "overloaded_error") \/ Has(error_str, "529")
    THEN Reason("Anthropic's API is temporarily overloaded", <<>>, <<>>)
    ELSE IF HasLower(error_str, "timeout") \/ HasLower(error_str, "timed out")
    THEN Reason("Request timed out", <<>>, <<>>)
    ELSE IF HasLower(error_str, "network") \/ HasLower(error_str, "connection")
    THEN Reason("Network error", <<>>, <<>>)
    ELSE Reason("API error", error_str, <<>>)

\* _parse_api_error: the first test that matches decides
parse_api_error(error_str) ==
    IF Has(error_str, "rate_limit_error") \/ Has(error_str, "429")
    THEN Reason("Rate limit exceeded", <<>>, <<>>)
    ELSE IF Has(error_str, "insufficient_quota") \/ HasLower(error_str, "quota")
    THEN Reason("API quota exceeded", <<>>, <<>>)
    ELSE IF \/ Has(error_str, "invalid_api_key") \/ Has(error_str, "authentication_error")
            \/ Has(error_str, "401")
    THEN Reason("Invalid API key", <<>>, <<>>)
    ELSE IF Has(error_str, "overloaded_error") \/ Has(error_str, "529")
    THEN Reason("Anthropic's API is temporarily overloaded", <<>>, <<>>)
    ELSE IF HasLower(error_str, "timeout") \/ HasLower(error_str, "timed out")
    THEN Reason("Request timed out", <<>>, <<>>)
    ELSE IF HasLower(error_str, "network") \/ HasLower(error_str, "connection")
    THEN Reason("Network error", <<>>, <<>>)
    ELSE Reason("API error", error_str, <<>>)

\* _calculate_cost, in millionths of a dollar: 3 per input token and 15 per
\* output token
calculate_cost(input_tokens, output_tokens) == input_tokens * 3 + output_tokens * 15

\* What the API does with one request: it answers with text and token
\* counts, or the call raises an error with a message
ApiAnswer(text, input_tokens, output_tokens) ==
    [ok |-> TRUE, text |-> text, input_tokens |-> input_tokens,
     output_tokens |-> output_tokens, message |-> <<>>]

ApiError(message) ==
    [ok |-> FALSE, text |-> <<>>, input_tokens |-> 0, output_tokens |-> 0, message |-> message]

\* A refactor_code that bills a failed call for the prompt it sent
refactor_code_charging_failures(api) ==
    IF api.ok
    THEN [success |-> TRUE,
          refactored_code |-> api.text,
          error |-> NoReason,
          tokens_used |-> [input |-> api.input_tokens, output |-> api.output_tokens,
                           total |-> api.input_tokens + api.output_tokens],
          cost |-> calculate_cost(api.input_tokens, api.output_tokens),
          model |-> ModelName]
    ELSE [success |-> FALSE,
          refactored_code |-> <<>>,
          error |-> parse_api_error(api.message),
          tokens_used |-> [input |-> 1, output |-> 0, total |-> 1],
          cost |-> calculate_cost(1, 0),
          model |-> ModelName]

\* refactor_code: the result dictionary; every exception becomes success = FALSE
refactor_code(api) ==
    IF api.ok
    THEN [success |-> TRUE,
          refactored_code |-> api.text,
          error |-> NoReason,
          tokens_used |-> [input |-> api.input_tokens, output |-> api.output_tokens,
                           total |-> api.input_tokens + api.output_tokens],
          cost |-> calculate_cost(api.input_tokens, api.output_tokens),
          model |-> ModelName]
    ELSE [success |-> FALSE,
          refactored_code |-> <<>>,
          error |-> parse_api_error(api.message),
          tokens_used |-> [input |-> 0, output |-> 0, total |-> 0],
          cost |-> 0,
          model |-> ModelName]

(***************************************************************************)
(* DiffManager                                                             *)
(***************************************************************************)
\* a create_backup that copies nothing
create_backup_never(w, create_backups, filepath) == w

\* create_backup: a copy of the file as it is, unless backups are off or
\* the file is missing
create_backup(w, create_backups, filepath) ==
    IF ~create_backups \/ w.fs[filepath].kind = "missing" THEN w
    ELSE [w EXCEPT !.backups = @ \cup {[of |-> filepath, bytes |-> w.fs[filepath].bytes]}]

\* save_refactored: the file is overwritten when it can be opened for writing
save_refactored(w, filepath, refactored_code, writable) ==
    IF writable
    THEN [ok |-> TRUE, w |-> [w EXCEPT !.fs[filepath] = RegularFile(refactored_code, TRUE)]]
    ELSE [ok |-> FALSE, w |-> w]

(***************************************************************************)
(* BatchProcessor                                                          *)
(***************************************************************************)
Target == "modernize"

Options(no_backup, dry_run, apply) ==
    [no_backup |-> no_backup, dry_run |-> dry_run, apply |-> apply]

\* log_action called by a flow for file number idx of its run
Log(w, idx, a, dt) ==
    emit(log_action(w, a, dt),
         Event("log", idx, a.filepath, NoVerdict, <<>>, a.status, a.findings, w.seq_id + 1))

\* log_action called where the database may refuse the write: with
\* "log_fails" sqlite3 raises and no row is written
TryLog(w, idx, a, dt, io) ==
    IF io = "log_fails"
    THEN [ok |-> FALSE,
          w |-> emit(w, Event("log_failed", idx, a.filepath, NoVerdict, <<>>, a.status,
                              a.findings, 0))]
    ELSE [ok |-> TRUE, w |-> Log(w, idx, a, dt)]

\* refactor_code has been called for file number idx: what the API did and
\* what refactor_code returned
Answer(idx, filepath, api, result) ==
    [ev |-> "answer", idx |-> idx, file |-> filepath, verdict |-> NoVerdict, code |-> <<>>,
     status |-> IF result.success THEN "success" ELSE "failed", findings |-> <<>>, id |-> 0,
     api |-> api, result |-> result]

\* the exception of a failed audit write, as except Exception reports it
LogError == Reason("exception", <<"sqlite3.OperationalError">>, <<>>)

FileResult(status, reason, cost, tokens_used) ==
    [status |-> status, reason |-> reason, cost |-> cost, tokens_used |-> tokens_used]

\* the flow returns (or, with status "raised", an exception leaves it)
Return(w, idx, filepath, res) ==
    [w |-> emit(w, Event("return", idx, filepath, NoVerdict, <<>>, res.status, <<>>, 0)),
     result |-> res]

\* a flow that goes on to the generation call in dry-run mode
dry_run_ignored(opts) == FALSE

\* if dry_run / if self.dry_run
dry_run_stops(opts) == opts.dry_run

\* a caller that never looks at the error flag
scan_error_never(v) == FALSE

\* if scan_result.get('error')
scan_error(v) == v.error

\* a gate that lets a blocked verdict without findings through
not_allowed_with_findings(v) == ~v.allowed /\ v.findings # <<>>

\* if not scan_result['allowed']
not_allowed(v) == ~v.allowed

\* _process_single_file from line 145 on: out is what scan_file did
process_scanned(w0, out, idx, filepath, opts, api, io, dt) ==
    LET v == out.verdict
        w1 == emit(w0, Event("scan", idx, filepath, v, <<>>, "", <<>>, 0))
        \* a log_action call outside the try block, then return res
        logged(a, res) ==
            LET l == TryLog(w1, idx, a, dt, io)
            IN  IF l.ok THEN Return(l.w, idx, filepath, res)
                ELSE Return(l.w, idx, filepath, FileResult("raised", NoReason, 0, 0))
        \* except Exception as e: return status failed, reason str(e)
        caught(w) == Return(w, idx, filepath, FileResult("failed", LogError, 0, 0))
    IN  IF out.raised
        THEN Return(w0, idx, filepath, FileResult("raised", NoReason, 0, 0))
        ELSE IF scan_error(v)
        THEN logged(LogArgs(filepath, "refactor", "error", v.reason, 0, 0,
                            <<>>, "NULL", "NULL"),
                    FileResult("failed", v.reason, 0, 0))
        ELSE IF not_allowed(v)
        THEN logged(LogArgs(filepath, "refactor", "blocked", v.reason, 0, 0,
                            v.findings, "NULL", Target),
                    FileResult("blocked", v.reason, 0, 0))
        ELSE IF dry_run_stops(opts)
        THEN logged(LogArgs(filepath, "scan", "allowed", v.reason, 0, 0,
                            <<>>, "NULL", "NULL"),
                    FileResult("skipped", Reason("dry run mode", <<>>, <<>>), 0, 0))
        ELSE
        LET result == refactor_code(api)
            w2 == emit(emit(w1, Event("generate", idx, filepath, NoVerdict, v.content, "",
                                      <<>>, 0)),
                       Answer(idx, filepath, api, result))
        IN  IF ~result.success
            THEN LET l == TryLog(w2, idx, LogArgs(filepath, "refactor", "error", result.error,
                                                  0, 0, <<>>, result.model, Target), dt, io)
                 IN  IF l.ok
                     THEN Return(l.w, idx, filepath, FileResult("failed", result.error, 0, 0))
                     ELSE caught(l.w)
            ELSE
            CHOOSE ret \in {
            LET w3 == l3.w
                done == FileResult("success", NoReason, result.cost, result.tokens_used.total)
                w4 == IF opts.no_backup THEN w3
                      ELSE emit(create_backup(w3, TRUE, filepath),
                                Event("backup", idx, filepath, NoVerdict, <<>>, "", <<>>, 0))
                saved == save_refactored(w4, filepath, result.refactored_code, io # "save_fails")
            IN  IF ~l3.ok THEN caught(w3)
                ELSE IF ~opts.apply THEN Return(w3, idx, filepath, done)
                ELSE IF ~opts.no_backup /\ io = "backup_fails"
                THEN Return(w3, idx, filepath,
                            FileResult("failed", Reason("exception", <<"copy2">>, <<>>), 0, 0))
                ELSE IF saved.ok
                THEN Return(emit(saved.w, Event("save", idx, filepath, NoVerdict,
                                                result.refactored_code, "", <<>>, 0)),
                            idx, filepath, done)
                ELSE Return(w4, idx, filepath,
                            FileResult("failed", Reason("Failed to save changes", <<>>, <<>>), 0, 0))
            : l3 \in {TryLog(w2, idx, LogArgs(filepath, "refactor", "success",
                                              Reason("Refactoring completed successfully",
                                                     <<>>, <<>>),
                                              result.tokens_used.total, result.cost,
                                              <<>>, result.model, Target), dt, io)}} : TRUE

\* _process_single_file.  api is what the API does with the request, io
\* says which file operation of the diff manager fails, if any.
process_single_file(w0, pol, idx, filepath, opts, api, io, dt) ==
    CHOOSE ret \in {process_scanned(w0, out, idx, filepath, opts, api, io, dt) :
                       out \in {ScanStable(pol, w0.fs, filepath)}} : TRUE

\* an add_result that has no counter for the failed files
add_result_failed_uncounted(b, filepath, res) ==
    LET counted ==
            CASE res.status = "success" ->
                     [b EXCEPT !.successful = @ + 1,
                               !.total_cost = @ + res.cost,
                               !.total_tokens = @ + res.tokens_used]
              [] res.status = "blocked" -> [b EXCEPT !.blocked = @ + 1]
              [] res.status = "skipped" -> [b EXCEPT !.skipped = @ + 1]
              [] OTHER -> b
    IN  [counted EXCEPT !.file_results = (filepath :> res) @@ @]

\* BatchResult.add_result
add_result(b, filepath, res) ==
    LET counted ==
            CASE res.status = "success" ->
                     [b EXCEPT !.successful = @ + 1,
                               !.total_cost = @ + res.cost,
                               !.total_tokens = @ + res.tokens_used]
              [] res.status = "blocked" -> [b EXCEPT !.blocked = @ + 1]
              [] res.status = "failed" -> [b EXCEPT !.failed = @ + 1]
              [] res.status = "skipped" -> [b EXCEPT !.skipped = @ + 1]
              [] OTHER -> b
    IN  [counted EXCEPT !.file_results = (filepath :> res) @@ @]

\* process_files: the files one after the other; an exception that leaves
\* _process_single_file ends the loop and the call
\* envs[i] is what the API and the disk do while file number i is processed
RECURSIVE process_loop(_, _, _, _, _, _, _, _)
process_loop(w, b, pol, files, idx, opts, envs, dt) ==
    IF idx > Len(files) THEN [w |-> w, batch |-> b, raised |-> FALSE]
    ELSE CHOOSE r \in
             {IF one.result.status = "raised"
              THEN [w |-> one.w, batch |-> b, raised |-> TRUE]
              ELSE process_loop(one.w, add_result(b, files[idx], one.result),
                                pol, files, idx + 1, opts, envs, dt) :
                  one \in {process_single_file(w, pol, idx, files[idx], opts,
                                               envs[idx].api, envs[idx].io, dt)}} : TRUE

process_files(w, pol, files, opts, envs, dt) ==
    process_loop(w, [EmptyBatch EXCEPT !.total_files = Len(files)],
                 pol, files, 1, opts, envs, dt)

(***************************************************************************)
(* cli.refactor                                                            *)
(***************************************************************************)
\* the refactor command from line 189 on: out is what scan_file did
refactor_scanned(wi, out, filepath, opts, have_key, api, confirm, io, dt) ==
    LET v == out.verdict
        w1 == emit(wi, Event("scan", 1, filepath, v, <<>>, "", <<>>, 0))
        ret(w, status) == Return(w, 1, filepath, FileResult(status, NoReason, 0, 0)).w
        \* a log_action call outside the try block, then return
        logged(a, status) ==
            LET l == TryLog(w1, 1, a, dt, io)
            IN  IF l.ok THEN ret(l.w, status) ELSE ret(l.w, "raised")
    IN  IF out.raised THEN ret(wi, "raised")
        ELSE IF scan_error(v)
        THEN logged(LogArgs(filepath, "refactor", "error", v.reason, 0, 0,
                            <<>>, "NULL", "NULL"), "error")
        ELSE IF not_allowed(v)
        THEN logged(LogArgs(filepath, "refactor", "blocked", v.reason, 0, 0,
                            v.findings, "NULL", Target), "blocked")
        ELSE IF dry_run_stops(opts)
        THEN logged(LogArgs(filepath, "scan", "allowed", v.reason, 0, 0,
                            <<>>, "NULL", "NULL"), "dry_run")
        ELSE IF ~have_key THEN ret(w1, "no_api_key")
        ELSE
        LET result == refactor_code(api)
            w2 == emit(emit(w1, Event("generate", 1, filepath, NoVerdict, v.content, "",
                                      <<>>, 0)),
                       Answer(1, filepath, api, result))
        IN  IF ~result.success
            THEN LET l == TryLog(w2, 1, LogArgs(filepath, "refactor", "error", result.error,
                                                0, 0, <<>>, result.model, Target), dt, io)
                 IN  IF l.ok THEN ret(l.w, "failed") ELSE ret(l.w, "exception")
            ELSE
            CHOOSE w \in {
            LET w3 == l3.w
                w4 == IF opts.no_backup THEN w3
                      ELSE emit(create_backup(w3, ~opts.no_backup, filepath),
                                Event("backup", 1, filepath, NoVerdict, <<>>, "", <<>>, 0))
                saved == save_refactored(w4, filepath, result.refactored_code, io # "save_fails")
            IN  IF ~l3.ok THEN ret(w3, "exception")
                ELSE IF ~(opts.apply \/ confirm) THEN ret(w3, "not_applied")
                ELSE IF ~opts.no_backup /\ io = "backup_fails" THEN ret(w3, "exception")
                ELSE IF saved.ok
                THEN ret(emit(saved.w, Event("save", 1, filepath, NoVerdict,
                                             result.refactored_code, "", <<>>, 0)), "applied")
                ELSE ret(w4, "save_failed")
            : l3 \in {TryLog(w2, 1, LogArgs(filepath, "refactor", "success",
                                            Reason("Refactoring completed successfully",
                                                   <<>>, <<>>),
                                            result.tokens_used.total, result.cost,
                                            <<>>, result.model, Target), dt, io)}} : TRUE

\* the refactor command on one file.  have_key is what ensure_api_key
\* returns, confirm the answer to "Apply changes?".
cli_refactor(w0, pol, filepath, opts, have_key, api, confirm, io, dt) ==
    CHOOSE w \in {refactor_scanned(wi, out, filepath, opts, have_key, api, confirm, io, dt) :
                     wi \in {init_database(w0)},
                     out \in {ScanStable(pol, w0.fs, filepath)}} : TRUE

(***************************************************************************)
(* demo.demo_security_scanning                                             *)
(***************************************************************************)
\* the files of the demo, in the order of demo_files
DemoFiles == << <<"a", "/", "s">>, <<"a", "/", "c">> >>

\* the body of the loop from line 78 on: out is what scan_file did
demo_scanned(w0, out, idx, filepath, dt) ==
    LET v == out.verdict
        w1 == emit(w0, Event("scan", idx, filepath, v, <<>>, "", <<>>, 0))
        status == IF scan_error(v) THEN "error"
                  ELSE IF v.allowed THEN "allowed"
                  ELSE "blocked"
    IN  IF out.raised
        THEN Return(w0, idx, filepath, FileResult("raised", NoReason, 0, 0))
        ELSE Return(Log(w1, idx, LogArgs(filepath, "demo_scan", status, v.reason, 0, 0,
                                         v.findings, "NULL", "NULL"), dt),
                    idx, filepath, FileResult(status, v.reason, 0, 0))

\* the loop over demo_files: a file that does not exist is passed over,
\* an exception that leaves scan_file ends the demo
RECURSIVE demo_loop(_, _, _, _)
demo_loop(w, pol, idx, dt) ==
    IF idx > Len(DemoFiles) THEN w
    ELSE IF w.fs[DemoFiles[idx]].kind = "missing" THEN demo_loop(w, pol, idx + 1, dt)
    ELSE CHOOSE r \in
             {IF one.result.status = "raised" THEN one.w
              ELSE demo_loop(one.w, pol, idx + 1, dt) :
                  one \in {demo_scanned(w, ScanStable(pol, w.fs, DemoFiles[idx]), idx,
                                        DemoFiles[idx], dt)}} : TRUE

demo_security_scanning(w0, pol, dt) == demo_loop(init_database(w0), pol, 1, dt)

(***************************************************************************)
(* Spec: one run of a refactor command.  The process starts with the       *)
(* policy loaded, files on disk and the audit log as earlier runs left it. *)
(***************************************************************************)
RefactoredCode == <<"r">>

FlowPolicies ==
    LET info(n) == CHOOSE i \in PatternCatalog : i.name = n
    IN  { Policy(<< <<"*", "s", "*">> >>, <<info("api_key"), info("password_pattern")>>),
          Policy(<<>>, <<info("secret_pair"), info("broken")>>) }

FlowStates ==
    {Missing, Directory, RegularFile(PlainPiece, TRUE), RegularFile(PlainPiece, FALSE),
     RegularFile(ShortPiece, TRUE), RegularFile(<<BadByte>>, TRUE)}

\* what the API may do with a request
ApiBehaviours ==
    {ApiAnswer(RefactoredCode, 100, 50), ApiError(<<"Error", "code:", "429">>),
     ApiError(<<"boom">>)}

\* what the API and the disk do while one file is processed: the API
\* answers and one of the file operations may fail, or the API call fails
Environments ==
    {[api |-> ApiAnswer(RefactoredCode, 100, 50), io |-> f] : f \in IoFaults}
        \cup {[api |-> a, io |-> "none"] : a \in ApiBehaviours}

FlowOptions == {Options(nb, dr, ap) : nb \in BOOLEAN, dr \in BOOLEAN, ap \in BOOLEAN}

\* the command has started with these options
Started(opts) ==
    [ev |-> "options", idx |-> 0, file |-> <<>>, verdict |-> NoVerdict, code |-> <<>>,
     status |-> "", findings |-> <<>>, id |-> 0, opts |-> opts]

\* the audit store after at most n earlier appends
EmptyStore == [audit_log |-> <<>>, seq_id |-> 0, now |-> 0, returned |-> <<>>]

PriorArgs ==
    {LogArgs(<<"a", "/", "c">>, "refactor", "success",
             Reason("Refactoring completed successfully", <<>>, <<>>),
             150, 1050, <<>>, ModelName, Target)}

RECURSIVE Stores(_)
Stores(n) ==
    IF n = 0 THEN {EmptyStore}
    ELSE Stores(n - 1) \cup
         {log_action(st, a, dt) : st \in {x \in Stores(n - 1) : Len(x.audit_log) = n - 1},
                                  a \in PriorArgs, dt \in {1}}

Init ==
    /\ pc = "start"
    /\ policy \in FlowPolicies
    /\ fs \in [Paths -> FlowStates]
    /\ scan_out = NoScan
    /\ db_columns = AllColumns
    /\ \E st \in Stores(MaxPrior) :
           /\ audit_log = st.audit_log
           /\ seq_id = st.seq_id
           /\ now = st.now
           /\ returned = st.returned
    /\ audit_out = NoAuditCall
    /\ run = <<>>
    /\ batch = EmptyBatch
    /\ backups = {}
    /\ conn = <<>>
    /\ calc = <<>>

Becomes(w) ==
    /\ fs' = w.fs
    /\ db_columns' = w.db_columns
    /\ audit_log' = w.audit_log
    /\ seq_id' = w.seq_id
    /\ now' = w.now
    /\ returned' = w.returned
    /\ run' = w.run
    /\ backups' = w.backups

\* ai-governance refactor FILEPATH: click refuses a path that does not exist
CliRefactor ==
    /\ pc = "start"
    /\ \E filepath \in {q \in Paths : fs[q].kind # "missing"}, opts \in FlowOptions,
          have_key, confirm \in BOOLEAN, env \in Environments :
           \E w \in {cli_refactor(emit(World, Started(opts)), policy, filepath, opts,
                                  have_key, env.api, confirm, env.io, 1)} :
               Becomes(w)
    /\ pc' = "done"
    /\ UNCHANGED <<policy, scan_out, audit_out, batch, conn, calc>>

\* BatchProcessor.process_files on a list of files
\* (discover_files hands over each file once)
ProcessFiles ==
    /\ pc = "start"
    /\ \E n \in 1..MaxFiles :
           \E files \in {q \in [1..n -> Paths] : Injective(q)}, envs \in [1..n -> Environments],
              opts \in FlowOptions :
               \E res \in {process_files(emit(World, Started(opts)), policy, files, opts,
                                          envs, 1)} :
                   /\ Becomes(res.w)
                   /\ batch' = res.batch
    /\ pc' = "done"
    /\ UNCHANGED <<policy, scan_out, audit_out, conn, calc>>

\* python src/demo.py, its security scanning part
DemoSecurityScanning ==
    /\ pc = "start"
    /\ \E w \in {demo_security_scanning(World, policy, 1)} : Becomes(w)
    /\ pc' = "done"
    /\ UNCHANGED <<policy, scan_out, audit_out, batch, conn, calc>>

Next == CliRefactor \/ ProcessFiles \/ DemoSecurityScanning

Spec == Init /\ [][Next]_vars

(***************************************************************************)
(* SpecScan: scan_file as a function of the policy and the file.           *)
(***************************************************************************)
InitScan ==
    /\ policy \in Policies
    /\ \E st \in FileStates(MaxPieces) : fs = [q \in Paths |-> st]
    /\ InitRest

ScanFile(filepath) ==
    /\ scan_out' = [called |-> TRUE, filepath |-> filepath,
                    out |-> ScanStable(policy, fs, filepath)]
    /\ UNCHANGED <<pc, policy, fs, db_columns, audit_log, seq_id, now, returned, audit_out,
                   run, batch, backups,
                   conn, calc>>

NextScan == \E filepath \in Paths : ScanFile(filepath)

SpecScan == InitScan /\ [][NextScan]_vars

(***************************************************************************)
(* SpecRace: scan_file on a file that other processes remove or replace    *)
(* while the call runs.  The file may be in a different state at each of   *)
(* the four moments scan_file looks at it.                                 *)
(***************************************************************************)
RaceStates ==
    {Missing, Directory, RegularFile(PlainPiece, TRUE), RegularFile(PlainPiece, FALSE),
     RegularFile(ShortPiece, TRUE), RegularFile(<<BadByte>>, TRUE)}

InitRace ==
    /\ policy \in {pol \in Policies : /\ Len(pol.blocked_file_patterns) <= 1
                                      /\ Len(pol.sensitive_patterns) <= 1}
    /\ fs \in [Paths -> RaceStates]
    /\ InitRest

ScanFileRacing(filepath) ==
    \E o_is_file, o_stat, o_open \in RaceStates :
        /\ scan_out' = [called |-> TRUE, filepath |-> filepath,
                        out |-> scan_file(policy, filepath, fs[filepath],
                                          o_is_file, o_stat, o_open)]
        /\ fs' = [fs EXCEPT ![filepath] = o_open]
        /\ UNCHANGED <<pc, policy, db_columns, audit_log, seq_id, now, returned, audit_out,
                       run, batch, backups,
                   conn, calc>>

NextRace == \E filepath \in Paths : ScanFileRacing(filepath)

SpecRace == InitRace /\ [][NextRace]_vars

(***************************************************************************)
(* Properties of scan_file (SpecScan, SpecRace).                           *)
(***************************************************************************)

\* C1 as stated: for an existing regular file whose bytes decode as UTF-8,
\* scan_file returns allowed = TRUE iff the path matches no blocked glob
\* and scan_content on the file's content returns no findings.
C1_AllowedIffCleanAnyFile ==
    scan_out.called =>
        LET f == fs[scan_out.filepath]
            globs == policy.blocked_file_patterns
        IN  f.kind = "file" /\ BadByte \notin Range(f.bytes) =>
                /\ ~scan_out.out.raised
                /\ scan_out.out.verdict.allowed <=>
                       /\ \A i \in 1..Len(globs) : ~fnmatch(scan_out.filepath, globs[i])
                       /\ scan_content(policy, f.bytes).findings = <<>>

\* C1 amended: for an existing regular file that can be opened for reading
\* and whose bytes decode as UTF-8, scan_file returns allowed = TRUE iff the
\* path matches no blocked glob and scan_content on the file's content
\* returns no findings.
C1_AllowedIffClean ==
    scan_out.called =>
        LET f == fs[scan_out.filepath]
            globs == policy.blocked_file_patterns
        IN  f.kind = "file" /\ f.readable /\ BadByte \notin Range(f.bytes) =>
                /\ ~scan_out.out.raised
                /\ scan_out.out.verdict.allowed <=>
                       /\ \A i \in 1..Len(globs) : ~fnmatch(scan_out.filepath, globs[i])
                       /\ scan_content(policy, f.bytes).findings = <<>>

\* a readable text file is allowed under a policy that declares globs and
\* patterns that compile
C1_Witness ==
    /\ scan_out.called
    /\ fs[scan_out.filepath].kind = "file"
    /\ fs[scan_out.filepath].readable
    /\ fs[scan_out.filepath].bytes # <<>>
    /\ scan_out.out.verdict.allowed
    /\ policy.blocked_file_patterns # <<>>
    /\ compiled_patterns(policy) # <<>>

\* C4: when the path of an existing regular file matches a blocked glob,
\* scan_file returns a block verdict (allowed false, error false, no
\* findings, the reason citing the first matching glob in declaration order)
\* without opening the file and without calling scan_content, also when the
\* file is unreadable or undecodable.
C4_PathBlockShortCircuits ==
    scan_out.called =>
        LET f == fs[scan_out.filepath]
            globs == policy.blocked_file_patterns
            v == scan_out.out.verdict
        IN  \A i \in 1..Len(globs) :
                /\ f.kind = "file"
                /\ fnmatch(scan_out.filepath, globs[i])
                /\ \A j \in 1..(i - 1) : ~fnmatch(scan_out.filepath, globs[j])
                => /\ ~scan_out.out.raised
                   /\ ~v.allowed /\ ~v.error /\ v.findings = <<>>
                   /\ v.reason.kind = "File path matches blocked pattern"
                   /\ v.reason.arg = globs[i]
                   /\ ~scan_out.out.opened /\ ~scan_out.out.scanned

\* an unreadable file with undecodable bytes, at a path that two different
\* globs match, is blocked by the first glob
C4_Witness ==
    /\ scan_out.called
    /\ fs[scan_out.filepath].kind = "file"
    /\ ~fs[scan_out.filepath].readable
    /\ BadByte \in Range(fs[scan_out.filepath].bytes)
    /\ Len(policy.blocked_file_patterns) = 2
    /\ policy.blocked_file_patterns[1] # policy.blocked_file_patterns[2]
    /\ \A i \in 1..2 : fnmatch(scan_out.filepath, policy.blocked_file_patterns[i])
    /\ scan_out.out.verdict.reason.arg = policy.blocked_file_patterns[1]
    /\ ~scan_out.out.verdict.error

\* C5: every verdict with error = TRUE has allowed = FALSE and no findings,
\* and a regular file whose bytes are not valid UTF-8, at a path that no
\* blocked glob matches, yields an error verdict, never allowed = TRUE.
C5_ErrorVerdictNeverAllows ==
    scan_out.called /\ ~scan_out.out.raised =>
        LET f == fs[scan_out.filepath]
            globs == policy.blocked_file_patterns
            v == scan_out.out.verdict
        IN  /\ v.error => ~v.allowed /\ v.findings = <<>>
            /\ /\ f.kind = "file"
               /\ BadByte \in Range(f.bytes)
               /\ \A i \in 1..Len(globs) : ~fnmatch(scan_out.filepath, globs[i])
               => v.error /\ ~v.allowed

\* a readable file with an invalid byte among text that a declared pattern
\* would match, at a path that is not blocked, gets an error verdict
C5_Witness ==
    /\ scan_out.called
    /\ fs[scan_out.filepath].kind = "file"
    /\ fs[scan_out.filepath].readable
    /\ BadByte \in Range(fs[scan_out.filepath].bytes)
    /\ Len(fs[scan_out.filepath].bytes) > 1
    /\ scan_out.out.verdict.error
    /\ scan_out.out.verdict.reason.kind = "File is not a valid text file (binary content detected)"

\* C6: scan_file never raises past its boundary: whatever the file is and
\* however it changes during the call, the call returns a verdict.
C6_NeverRaises == scan_out.called => ~scan_out.out.raised

\* C7: when scan_content returns findings the verdict is allowed = FALSE
\* whatever their severities, the verdict's findings are all of them, and
\* the reason names the patterns of the critical findings first, then those
\* of the high findings, and no medium or low pattern.
C7_FindingsBlock ==
    scan_out.called /\ scan_out.out.scanned /\ ~scan_out.out.raised =>
        LET v == scan_out.out.verdict
            found == scan_content(policy, fs[scan_out.filepath].bytes).findings
            names == Flatten([i \in 1..Len(v.reason.parts) |-> v.reason.parts[i].patterns])
            sev(n) == (CHOOSE f \in Range(found) : f.pattern = n).severity
        IN  found # <<>> =>
                /\ ~v.allowed
                /\ v.findings = found
                /\ \A i \in 1..Len(names) :
                       /\ \E f \in Range(found) : f.pattern = names[i]
                       /\ sev(names[i]) \in {"critical", "high"}
                /\ \A i, j \in 1..Len(names) :
                       i < j => ~(sev(names[i]) = "high" /\ sev(names[j]) = "critical")
                /\ \A i, j \in 1..Len(names) : names[i] = names[j] => i = j
                /\ \A f \in Range(found) :
                       f.severity \in {"critical", "high"} => f.pattern \in Range(names)

\* a high finding found before a critical one: the reason names the
\* critical pattern first
C7_Witness ==
    /\ scan_out.called
    /\ Len(scan_out.out.verdict.findings) = 2
    /\ scan_out.out.verdict.findings[1].severity = "high"
    /\ scan_out.out.verdict.findings[2].severity = "critical"
    /\ Len(scan_out.out.verdict.reason.parts) = 2
    /\ scan_out.out.verdict.reason.parts[1].label = "Critical"

\* a medium finding alone blocks, and the reason names no pattern
C7_WitnessMedium ==
    /\ scan_out.called
    /\ Len(scan_out.out.verdict.findings) = 1
    /\ scan_out.out.verdict.findings[1].severity = "medium"
    /\ ~scan_out.out.verdict.allowed
    /\ scan_out.out.verdict.reason.parts = <<>>

\* C8: each finding carries at most 3 examples, each example is a string of
\* at most 13 characters, and an example of more than 10 characters is 10
\* characters of the match followed by "...".
C8_ExamplesRedacted ==
    scan_out.called =>
        \A i \in 1..Len(scan_out.out.verdict.findings) :
            LET ex == scan_out.out.verdict.findings[i].examples
            IN  /\ Len(ex) <= MaxExamples
                /\ \A j \in 1..Len(ex) :
                       /\ ~ex[j].tuple
                       /\ Len(ex[j].str) <= ExampleLen + 3
                       /\ Len(ex[j].str) > ExampleLen =>
                              SubSeq(ex[j].str, ExampleLen + 1, Len(ex[j].str)) = Ellipsis

(***************************************************************************)
(* Claims about the refactor flows (Spec)                                  *)
(***************************************************************************)
\* the steps of kind ev that the run has made
Steps(ev) == {i \in 1..Len(run) : run[i].ev = ev}

\* C2: refactor_code is invoked for a file only after scan_file on that
\* file returned error = false and allowed = true earlier in the same run,
\* the text sent is the content that was scanned, and no generation call
\* is made for a file whose verdict is blocked or error.
C2_GenerateOnlyAfterAllowedScan ==
    /\ \A g \in Steps("generate") :
           \E s \in Steps("scan") :
               /\ s < g
               /\ run[s].idx = run[g].idx
               /\ run[s].file = run[g].file
               /\ ~run[s].verdict.error
               /\ run[s].verdict.allowed
               /\ run[s].verdict.has_content
               /\ run[s].verdict.content = run[g].code
    /\ \A s \in Steps("scan") :
           run[s].verdict.error \/ ~run[s].verdict.allowed =>
               \A g \in Steps("generate") : run[g].idx # run[s].idx

\* a finished run that made a generation call, and one that refused a file
C2_Witness ==
    /\ pc = "done"
    /\ Steps("generate") # {}
    /\ \E s \in Steps("scan") : ~run[s].verdict.allowed

\* C3: when a flow returns (or an exception leaves it), every file it
\* obtained a scan verdict for has at least one audit record appended by
\* that flow (or the flow tried to append one and the database refused).
C3_EveryVerdictAudited ==
    \A r \in Steps("return") :
        \A s \in Steps("scan") :
            run[s].idx = run[r].idx =>
                \/ \E l \in Steps("log") :
                       /\ s < l
                       /\ l < r
                       /\ run[l].idx = run[s].idx
                       /\ run[l].file = run[s].file
                       /\ \E k \in 1..Len(audit_log) :
                              /\ audit_log[k].id = run[l].id
                              /\ audit_log[k].filepath = run[s].file
                \/ \E l \in Steps("log_failed") : run[l].idx = run[s].idx

\* C9: for every log_action call with findings, the stored findings field
\* is built from pattern name, severity and match_count of each finding
\* and from nothing else: no example reaches the row.
C9_FindingsSummarized ==
    \A l \in Steps("log") :
        run[l].findings # <<>> =>
            \E k \in 1..Len(audit_log) :
                LET row == audit_log[k]
                    given == run[l].findings
                IN  /\ row.id = run[l].id
                    /\ Len(row.findings) = Len(given)
                    /\ \A i \in 1..Len(given) :
                           /\ DOMAIN row.findings[i] = {"pattern", "severity", "match_count"}
                           /\ row.findings[i].pattern = given[i].pattern
                           /\ row.findings[i].severity = given[i].severity
                           /\ row.findings[i].match_count = given[i].match_count

\* a row logged for a file whose findings carry examples
C9_Witness ==
    \E l \in Steps("log") :
        /\ run[l].findings # <<>>
        /\ run[l].status = "blocked"
        /\ \E i \in 1..Len(run[l].findings) : run[l].findings[i].examples # <<>>
        /\ \E k \in 1..Len(audit_log) :
               audit_log[k].id = run[l].id /\ audit_log[k].findings # <<>>

(***************************************************************************)
(* SpecAudit: the life of one audit database.  AuditLogger objects are     *)
(* created on it again and again (every command creates one), rows are     *)
(* logged and the log is queried.  pc is "closed" until the first          *)
(* AuditLogger exists.                                                     *)
(***************************************************************************)
\* what callers log: a successful refactoring and a blocked file
AuditArgs ==
    PriorArgs \cup
    {LogArgs(<<"a", "/", "s">>, "refactor", "blocked",
             Reason("Sensitive content detected", <<>>, << <<"Critical: password_pattern">> >>),
             0, 0,
             << [pattern |-> "password_pattern", description |-> <<"d">>, severity |-> "critical",
                 match_count |-> 2, examples |-> <<StrVal(<<"k", "v">>), StrVal(<<"K", "V">>)>>] >>,
             "NULL", Target)}

\* the database file is absent, or an earlier version or this version of
\* the tool has left it with some rows
InitAudit ==
    /\ pc = "closed"
    /\ policy \in FlowPolicies
    /\ fs = [q \in Paths |-> Missing]
    /\ scan_out = NoScan
    /\ \E st \in Stores(MaxPrior) :
           /\ audit_log = st.audit_log
           /\ seq_id = st.seq_id
           /\ now = st.now
           /\ returned = st.returned
           /\ db_columns \in IF st.audit_log = <<>> THEN {{}, OldColumns, AllColumns}
                             ELSE {OldColumns, AllColumns}
    /\ audit_out = NoAuditCall
    /\ run = <<>>
    /\ batch = EmptyBatch
    /\ backups = {}
    /\ conn = <<>>
    /\ calc = <<>>

\* AuditLogger(db_path)
NewAuditLogger ==
    /\ \E w \in {init_database(World)} :
           /\ db_columns' = w.db_columns
           /\ audit_log' = w.audit_log
           /\ seq_id' = w.seq_id
    /\ pc' = "open"
    /\ audit_out' = AuditCall("__init__", 0, 0, <<>>, [columns |-> table_info(World)])
    /\ UNCHANGED <<policy, fs, scan_out, now, returned, run, batch, backups, conn, calc>>

\* log_action(...)
LogAction ==
    /\ pc = "open"
    /\ Len(audit_log) < MaxLog
    /\ IF insert_works(World)
       THEN \E a \in AuditArgs, dt \in 0..1 :
                \E w \in {log_action(World, a, dt)} :
                    /\ db_columns' = w.db_columns
                    /\ audit_log' = w.audit_log
                    /\ seq_id' = w.seq_id
                    /\ now' = w.now
                    /\ returned' = w.returned
                    /\ audit_out' = AuditCall("log_action", w.seq_id, 0, <<>>, <<>>)
       ELSE /\ audit_out' = AuditCall("log_action raised", 0, 0, <<>>, <<>>)
            /\ UNCHANGED <<db_columns, audit_log, seq_id, now, returned>>
    /\ UNCHANGED <<pc, policy, fs, scan_out, run, batch, backups, conn, calc>>

\* get_recent_logs(limit)
GetRecentLogs ==
    /\ pc = "open"
    /\ \E limit \in 1..MaxLog : \E rows \in get_recent_logs(World, limit) :
           audit_out' = AuditCall("get_recent_logs", 0, limit, rows, <<>>)
    /\ UNCHANGED <<pc, policy, fs, scan_out, db_columns, audit_log, seq_id, now, returned,
                   run, batch, backups,
                   conn, calc>>

\* get_logs_by_status(status, limit)
GetLogsByStatus ==
    /\ pc = "open"
    /\ \E status \in {"success", "blocked", "error"}, limit \in 1..MaxLog :
           \E rows \in get_logs_by_status(World, status, limit) :
               audit_out' = AuditCall("get_logs_by_status", 0, limit, rows, <<>>)
    /\ UNCHANGED <<pc, policy, fs, scan_out, db_columns, audit_log, seq_id, now, returned,
                   run, batch, backups,
                   conn, calc>>

\* get_statistics()
GetStatistics ==
    /\ pc = "open"
    /\ \E stats \in get_statistics(World) :
           audit_out' = AuditCall("get_statistics", 0, 0, <<>>, stats)
    /\ UNCHANGED <<pc, policy, fs, scan_out, db_columns, audit_log, seq_id, now, returned,
                   run, batch, backups, conn, calc>>

\* get_statistics_by_timeframe(timeframe)
GetStatisticsByTimeframe ==
    /\ pc = "open"
    /\ \E timeframe \in {"day", "week", "month", "all"} :
           \E stats \in get_statistics_by_timeframe(World, timeframe) :
               audit_out' = AuditCall("get_statistics_by_timeframe", 0, 0, <<>>, stats)
    /\ UNCHANGED <<pc, policy, fs, scan_out, db_columns, audit_log, seq_id, now, returned,
                   run, batch, backups, conn, calc>>

NextAudit ==
    \/ NewAuditLogger \/ LogAction \/ GetRecentLogs \/ GetLogsByStatus
    \/ GetStatistics \/ GetStatisticsByTimeframe

SpecAudit == InitAudit /\ [][NextAudit]_vars

\* C10: the audit log is append-only.  Whatever log_action, the queries and
\* a new AuditLogger on the same database do, every row that was there is
\* still there unchanged and in place, and the ids log_action has returned
\* are strictly increasing.
C10_AppendOnly ==
    [][/\ Len(audit_log') >= Len(audit_log)
       /\ SubSeq(audit_log', 1, Len(audit_log)) = audit_log
       /\ \A i, j \in 1..Len(returned') : i < j => returned'[i] < returned'[j]
       /\ audit_out'.op = "log_action" =>
              /\ Len(audit_log') = Len(audit_log) + 1
              /\ audit_log'[Len(audit_log')].id = audit_out'.id
              /\ returned' = Append(returned, audit_out'.id)
              /\ \A i \in 1..Len(audit_log) : audit_log[i].id < audit_out'.id]_vars

\* a new AuditLogger on a database to which rows have been logged since
\* the database was first opened
C10_Witness ==
    /\ pc = "open"
    /\ audit_out.op = "__init__"
    /\ Len(audit_log) = MaxLog
    /\ Len(returned) = MaxLog

\* C11: get_recent_logs(limit) returns the min(limit, total) most recently
\* appended records, newest first by timestamp; with limit = total these
\* are all the records appended.
C11_RecentLogsAreLatestAppended ==
    audit_out.op = "get_recent_logs" =>
        LET rows == audit_out.rows
            total == Len(audit_log)
            n == Min(audit_out.limit, total)
        IN  /\ Len(rows) = n
            /\ {rows[i].id : i \in 1..Len(rows)} =
                   {audit_log[j].id : j \in (total - n + 1)..total}
            /\ \A i, j \in 1..Len(rows) : i < j => rows[i].timestamp >= rows[j].timestamp

\* C12: get_statistics() and get_statistics_by_timeframe('all') report as
\* total_requests the number of records appended so far, whatever their
\* status, and as total_tokens the sum of their tokens_used.
C12_TotalsCountEveryRecord ==
    \/ audit_out.op = "get_statistics"
    \/ audit_out.op = "get_statistics_by_timeframe" /\ audit_out.stats.timeframe = "all"
    => /\ audit_out.stats.total_requests = Len(returned)
       /\ audit_out.stats.total_requests = Len(audit_log)
       /\ audit_out.stats.total_tokens = SumOf(audit_log, "tokens_used")

\* statistics over a log that holds a blocked and a successful record
C12_Witness ==
    /\ audit_out.op = "get_statistics_by_timeframe"
    /\ audit_out.stats.timeframe = "all"
    /\ audit_out.stats.total_requests >= 2
    /\ audit_out.stats.total_tokens > 0
    /\ DOMAIN audit_out.stats.status_counts = {"success", "blocked"}

\* C13: a new AuditLogger on a database written under the older schema
\* adds every column of the current schema that the table lacks, drops no
\* column, keeps every row as it is, and log_action works afterwards.
C13_AdditiveMigration ==
    /\ [](audit_out.op # "log_action raised")
    /\ [](pc = "open" => AllColumns \subseteq db_columns)
    /\ [][audit_out'.op = "__init__" =>
              /\ db_columns \subseteq db_columns'
              /\ AllColumns \subseteq db_columns'
              /\ audit_log' = audit_log
              /\ seq_id' = seq_id]_vars

\* a database of the older schema with a row in it has just been opened
C13_Witness ==
    /\ audit_out.op = "__init__"
    /\ audit_out.stats.columns = OldColumns
    /\ audit_log # <<>>
    /\ db_columns = AllColumns

(***************************************************************************)
(* Claims about the policy engine (SpecScan)                               *)
(***************************************************************************)
\* C16: with a declared pattern whose regex does not compile, exactly that
\* pattern is missing from the compiled set, every other declared pattern
\* is compiled and reported by a scan of content it matches, and
\* get_policy_info().sensitive_patterns_count is the declared count.
C16_BrokenPatternSkipped ==
    LET declared == policy.sensitive_patterns
        compiled == compiled_patterns(policy)
        names == {compiled[i].name : i \in 1..Len(compiled)}
    IN  /\ \A i \in 1..Len(declared) : declared[i].name \in names <=> ~declared[i].pattern.bad
        /\ Len(compiled) = Cardinality(names)
        /\ get_policy_info(policy).sensitive_patterns_count = Len(declared)
        /\ scan_out.called /\ scan_out.out.scanned /\ ~scan_out.out.raised =>
               \A i \in 1..Len(declared) :
                   /\ ~declared[i].pattern.bad
                   /\ findall(declared[i].pattern, decode(fs[scan_out.filepath].bytes)) # <<>>
                   => \E k \in 1..Len(scan_out.out.verdict.findings) :
                          scan_out.out.verdict.findings[k].pattern = declared[i].name

\* a policy whose first pattern does not compile, and a scan that reports
\* the pattern declared after it
C16_Witness ==
    /\ Len(policy.sensitive_patterns) = 2
    /\ policy.sensitive_patterns[1].pattern.bad
    /\ get_policy_info(policy).sensitive_patterns_count = 2
    /\ Len(compiled_patterns(policy)) = 1
    /\ scan_out.called
    /\ scan_out.out.scanned
    /\ \E k \in 1..Len(scan_out.out.verdict.findings) :
           scan_out.out.verdict.findings[k].pattern = policy.sensitive_patterns[2].name

(***************************************************************************)
(* SpecRepeat: one Scanner is asked again and again, about either file,    *)
(* while records are logged and statistics read in between.  run keeps,    *)
(* for each scan, the verdict and (as code) what the path named on disk.   *)
(***************************************************************************)
InitRepeat ==
    /\ pc = "open"
    /\ policy \in FlowPolicies
    /\ fs \in [Paths -> FlowStates]
    /\ scan_out = NoScan
    /\ db_columns = AllColumns
    /\ audit_log = <<>>
    /\ seq_id = 0
    /\ now = 0
    /\ returned = <<>>
    /\ audit_out = NoAuditCall
    /\ run = <<>>
    /\ batch = EmptyBatch
    /\ backups = {}
    /\ conn = <<>>
    /\ calc = <<>>

\* scanner.scan_file(filepath)
ScanAgain ==
    /\ Cardinality({i \in 1..Len(run) : run[i].ev = "scan"}) < MaxScans
    /\ \E filepath \in Paths :
           \E out \in {ScanStable(policy, fs, filepath)} :
               /\ scan_out' = [called |-> TRUE, filepath |-> filepath, out |-> out]
               /\ run' = Append(run, Event("scan", 0, filepath, out.verdict, fs[filepath],
                                           "", <<>>, 0))
    /\ UNCHANGED <<pc, policy, fs, db_columns, audit_log, seq_id, now, returned, audit_out,
                   batch, backups, conn, calc>>

\* audit_logger.log_action(...) between two scans
LogBetween ==
    /\ Len(audit_log) < MaxLog
    /\ \E a \in PriorArgs :
           \E w \in {Log(World, 0, a, 1)} :
               /\ audit_log' = w.audit_log
               /\ seq_id' = w.seq_id
               /\ now' = w.now
               /\ returned' = w.returned
               /\ run' = w.run
               /\ audit_out' = AuditCall("log_action", w.seq_id, 0, <<>>, <<>>)
    /\ UNCHANGED <<pc, policy, fs, scan_out, db_columns, batch, backups, conn, calc>>

NextRepeat == ScanAgain \/ LogBetween \/ GetStatistics

SpecRepeat == InitRepeat /\ [][NextRepeat]_vars

C15_AuditFailureKeepsBatchRunning ==
    pc = "done" /\ batch.total_files > 0 =>
        /\ {run[s].idx : s \in Steps("scan")} = 1..batch.total_files
        /\ {run[s].file : s \in Steps("scan")} = DOMAIN batch.file_results
        /\ \A l \in Steps("log_failed") :
               /\ run[l].file \in DOMAIN batch.file_results
               /\ batch.file_results[run[l].file].status = "failed"

\* C18: refactor_code returns success with the text and the token counts,
\* or success = false with input, output and total tokens 0 and cost 0;
\* each flow calls it at most once per file per run.
C18_GenerationTypedAndOnce ==
    /\ \A a \in Steps("answer") :
           LET api == run[a].api
               result == run[a].result
           IN  /\ result.success = api.ok
               /\ api.ok => /\ result.refactored_code = api.text
                            /\ result.tokens_used.total = api.input_tokens + api.output_tokens
                            /\ result.error = NoReason
               /\ ~api.ok => /\ result.tokens_used = [input |-> 0, output |-> 0, total |-> 0]
                             /\ result.cost = 0
                             /\ result.error # NoReason
    /\ \A a, b \in Steps("answer") : run[a].idx = run[b].idx => a = b
    /\ \A g, h \in Steps("generate") : run[g].idx = run[h].idx => g = h
    /\ Cardinality(Steps("answer")) = Cardinality(Steps("generate"))

\* a batch in which the generation call failed for one file and succeeded
\* for the other
C18_Witness ==
    /\ pc = "done"
    /\ \E a, b \in Steps("answer") : run[a].result.success /\ ~run[b].result.success

\* C19: when a generation call fails, the audit record appended for the
\* file has status 'error' and a reason that holds the raw error message of
\* the API, whatever the category of the failure.
C19_RawErrorInAuditReason ==
    \A a \in Steps("answer") :
        ~run[a].api.ok =>
            \A l \in Steps("log") :
                run[l].idx = run[a].idx =>
                    \E k \in 1..Len(audit_log) :
                        /\ audit_log[k].id = run[l].id
                        /\ audit_log[k].status = "error"
                        /\ audit_log[k].reason.arg = run[a].api.message

(***************************************************************************)
(* Several processes on one audit database (SpecConc).  Every call opens   *)
(* its own connection; SQLite in its default rollback-journal mode gives   *)
(* the file one RESERVED lock (a writer with uncommitted changes), a       *)
(* PENDING flag (that writer is waiting to commit) and SHARED locks (the   *)
(* readers).  A call that cannot get its lock within the busy timeout      *)
(* raises sqlite3.OperationalError.                                        *)
(***************************************************************************)
Procs == 1..MaxProcs

NoRow == <<>>

\* a process between two calls
Idle == [pc |-> "idle", a |-> <<>>, timestamp |-> 0, row |-> NoRow, limit |-> 0]

\* the rows of writers that have executed their INSERT and not committed
Uncommitted(c) ==
    IF c.reserved = 0 THEN <<>> ELSE <<c.proc[c.reserved].row>>

\* a SELECT that reads the pages of a writer's open transaction
visible_uncommitted(log, c) == log \o Uncommitted(c)

\* what a SELECT of another connection reads: the committed rows only; the
\* changes of an open transaction are private to its connection
visible(log, c) == log

InitConc ==
    /\ pc = "open"
    /\ policy = CHOOSE pol \in FlowPolicies : TRUE
    /\ fs = [q \in Paths |-> Missing]
    /\ scan_out = NoScan
    /\ db_columns = AllColumns
    /\ audit_log = <<>>
    /\ seq_id = 0
    /\ now = 0
    /\ returned = <<>>
    /\ audit_out = NoAuditCall
    /\ run = <<>>
    /\ batch = EmptyBatch
    /\ backups = {}
    /\ conn = [reserved |-> 0, pending |-> FALSE, shared |-> {}, proc |-> [p \in Procs |-> Idle]]
    /\ calc = <<>>

Writers == {p \in Procs : conn.proc[p].pc \in {"connected", "inserted"}}

\* log_action up to the INSERT: connect and read the clock
ConnectToLog ==
    /\ \E p \in Procs, a \in AuditArgs, dt \in 0..1 :
           /\ conn.proc[p].pc = "idle"
           /\ Len(audit_log) + Cardinality(Writers) < MaxAppends
           /\ conn' = [conn EXCEPT !.proc[p] =
                          [pc |-> "connected", a |-> a, timestamp |-> now, row |-> NoRow,
                           limit |-> 0]]
           /\ now' = IF now < MaxAppends THEN now + dt ELSE now
    /\ UNCHANGED <<pc, policy, fs, scan_out, db_columns, audit_log, seq_id, returned, audit_out,
                   run, batch, backups, calc>>

\* cursor.execute(INSERT ...): opens the transaction and takes the RESERVED
\* lock; the new row is in this connection's cache only
ExecuteInsert ==
    /\ \E p \in Procs :
           /\ conn.proc[p].pc = "connected"
           /\ conn.reserved = 0
           /\ conn' = [conn EXCEPT !.reserved = p,
                                   !.proc[p].pc = "inserted",
                                   !.proc[p].row = NewRow(seq_id + 1, conn.proc[p].timestamp,
                                                          conn.proc[p].a)]
    /\ UNCHANGED <<pc, policy, fs, scan_out, db_columns, audit_log, seq_id, now, returned,
                   audit_out, run, batch, backups, calc>>

\* the INSERT waits for another writer longer than the busy timeout
InsertTimesOut ==
    /\ \E p \in Procs :
           /\ conn.proc[p].pc = "connected"
           /\ conn.reserved # 0
           /\ conn' = [conn EXCEPT !.proc[p] = Idle]
    /\ audit_out' = AuditCall("log_action raised", 0, 0, <<>>, <<>>)
    /\ UNCHANGED <<pc, policy, fs, scan_out, db_columns, audit_log, seq_id, now, returned,
                   run, batch, backups, calc>>

\* conn.commit() while a reader holds its SHARED lock: the writer sets
\* PENDING, which keeps new readers out, and waits
CommitWaits ==
    /\ \E p \in Procs :
           /\ conn.proc[p].pc = "inserted"
           /\ conn.shared # {}
           /\ ~conn.pending
           /\ conn' = [conn EXCEPT !.pending = TRUE]
    /\ UNCHANGED <<pc, policy, fs, scan_out, db_columns, audit_log, seq_id, now, returned,
                   audit_out, run, batch, backups, calc>>

\* conn.commit(); conn.close(); return row_id: the row and the sequence
\* number reach the file in one step
Commit ==
    /\ \E p \in Procs :
           /\ conn.proc[p].pc = "inserted"
           /\ conn.shared = {}
           /\ audit_log' = Append(audit_log, conn.proc[p].row)
           /\ seq_id' = conn.proc[p].row.id
           /\ returned' = Append(returned, conn.proc[p].row.id)
           /\ conn' = [conn EXCEPT !.reserved = 0, !.pending = FALSE, !.proc[p] = Idle]
           /\ audit_out' = AuditCall("log_action", conn.proc[p].row.id, 0,
                                     <<NewRow(conn.proc[p].row.id, conn.proc[p].timestamp,
                                              conn.proc[p].a)>>, <<>>)
    /\ UNCHANGED <<pc, policy, fs, scan_out, db_columns, now, run, batch, backups, calc>>

\* conn.commit() waits for a reader longer than the busy timeout: the call
\* raises and the connection, dropped unclosed, rolls its transaction back
CommitTimesOut ==
    /\ \E p \in Procs :
           /\ conn.proc[p].pc = "inserted"
           /\ conn.shared # {}
           /\ conn' = [conn EXCEPT !.reserved = 0, !.pending = FALSE, !.proc[p] = Idle]
    /\ audit_out' = AuditCall("log_action raised", 0, 0, <<>>, <<>>)
    /\ UNCHANGED <<pc, policy, fs, scan_out, db_columns, audit_log, seq_id, now, returned,
                   run, batch, backups, calc>>

\* get_recent_logs(limit) up to cursor.execute(SELECT ...): the statement
\* takes a SHARED lock
ExecuteSelect ==
    /\ \E p \in Procs, limit \in {1, MaxAppends} :
           /\ conn.proc[p].pc = "idle"
           /\ ~conn.pending
           /\ conn' = [conn EXCEPT !.shared = @ \cup {p},
                                   !.proc[p] = [pc |-> "reading", a |-> <<>>, timestamp |-> 0,
                                                row |-> NoRow, limit |-> limit]]
    /\ UNCHANGED <<pc, policy, fs, scan_out, db_columns, audit_log, seq_id, now, returned,
                   audit_out, run, batch, backups, calc>>

\* the SELECT waits for a committing writer longer than the busy timeout
SelectTimesOut ==
    /\ \E p \in Procs :
           /\ conn.proc[p].pc = "idle"
           /\ conn.pending
    /\ audit_out' = AuditCall("get_recent_logs raised", 0, 0, <<>>, <<>>)
    /\ UNCHANGED <<pc, policy, fs, scan_out, db_columns, audit_log, seq_id, now, returned,
                   run, batch, backups, conn, calc>>

\* rows = cursor.fetchall(); conn.close(); return the rows
Fetchall ==
    /\ \E p \in Procs :
           /\ conn.proc[p].pc = "reading"
           /\ \E rows \in select_desc(visible(audit_log, conn), conn.proc[p].limit) :
                  audit_out' = AuditCall("get_recent_logs", 0, conn.proc[p].limit, rows, <<>>)
           /\ conn' = [conn EXCEPT !.shared = @ \ {p}, !.proc[p] = Idle]
    /\ UNCHANGED <<pc, policy, fs, scan_out, db_columns, audit_log, seq_id, now, returned,
                   run, batch, backups, calc>>

NextConc ==
    \/ ConnectToLog \/ ExecuteInsert \/ InsertTimesOut \/ CommitWaits \/ Commit
    \/ CommitTimesOut \/ ExecuteSelect \/ SelectTimesOut \/ Fetchall

SpecConc == InitConc /\ [][NextConc]_vars

\* C14: with several processes appending, every log_action that returns
\* has put exactly its own row, whole, into the table under an id no other
\* row has, no committed row is ever lost or changed, and every row a
\* concurrent get_recent_logs returns is a whole committed row: the result
\* is the answer of the query on the table as it was before or after each
\* append, never a row of a transaction still open.
C14_AppendsAtomicAndDistinct ==
    /\ \A i, j \in 1..Len(audit_log) : audit_log[i].id = audit_log[j].id => i = j
    /\ Len(returned) = Len(audit_log)
    /\ \A i \in 1..Len(returned) : audit_log[i].id = returned[i]
    /\ audit_out.op = "log_action" =>
           \E i \in 1..Len(audit_log) :
               /\ audit_log[i] = audit_out.rows[1]
               /\ audit_log[i].id = audit_out.id
    /\ audit_out.op = "get_recent_logs" =>
           \E k \in 0..Len(audit_log) :
               audit_out.rows \in select_desc(SubSeq(audit_log, 1, k), audit_out.limit)
    /\ \A p \in Procs :
           conn.proc[p].pc = "inserted" =>
               \A i \in 1..Len(audit_log) : audit_log[i].id # conn.proc[p].row.id

\* a get_recent_logs that ran while another process had executed its INSERT
\* and not committed, after an earlier append had committed: it returned
\* the committed row and not the open one
C14_Witness ==
    /\ audit_out.op = "get_recent_logs"
    /\ audit_out.limit > Len(audit_log)
    /\ Len(audit_log) > 0
    /\ Len(audit_out.rows) = Len(audit_log)
    /\ \E p \in Procs : conn.proc[p].pc = "inserted"

(***************************************************************************)
(* The cost of a call as Python computes it (SpecCost).  A float is an     *)
(* IEEE 754 double: here a record of its 53 significand bits, most         *)
(* significant first, and the exponent e of the last of them, so that its  *)
(* value is bits * 2^e; zero has no bits.  Every operation gives the       *)
(* double nearest to the exact result, ties to even.                       *)
(***************************************************************************)
Bin(bits, exp) == [bits |-> bits, exp |-> exp]

FZero == Bin(<<>>, 0)

Zeros(n) == [i \in 1..n |-> 0]

\* the w low binary digits of a natural number
BitsOf(n, w) == [i \in 1..w |-> (n \div 2^(w - i)) % 2]

\* the natural number of a short bit string
RECURSIVE NatOf(_)
NatOf(b) ==
    IF Len(b) = 0 THEN 0
    ELSE IF Len(b) = 1 THEN b[1]
    ELSE NatOf(SubSeq(b, 1, Len(b) \div 2)) * 2^(Len(b) - Len(b) \div 2)
             + NatOf(SubSeq(b, Len(b) \div 2 + 1, Len(b)))

\* the bit string without its leading zeros
Strip(b) ==
    IF \A i \in 1..Len(b) : b[i] = 0 THEN <<>>
    ELSE SubSeq(b, CHOOSE i \in 1..Len(b) : b[i] = 1 /\ \A j \in 1..(i - 1) : b[j] = 0, Len(b))

\* the j-th group of 15 bits
Chunk(b, j) == NatOf(SubSeq(b, 15 * j - 14, 15 * j))

\* x + y + c for bit strings of j groups of 15 bits, group by group from
\* the low end
RECURSIVE AddChunks(_, _, _, _)
AddChunks(x, y, j, c) ==
    IF j = 0 THEN <<c>>
    ELSE CHOOSE r \in {AddChunks(x, y, j - 1, t \div 32768) \o BitsOf(t % 32768, 15) :
                          t \in {Chunk(x, j) + Chunk(y, j) + c}} : TRUE

AddBits(x, y) ==
    LET n == IF Len(x) > Len(y) THEN Len(x) ELSE Len(y)
        j == (n + 14) \div 15
    IN  AddChunks(Zeros(15 * j - Len(x)) \o x, Zeros(15 * j - Len(y)) \o y, j, 0)

\* x * k + c for a bit string of j groups of 15 bits and k < 2^15
RECURSIVE MulChunks(_, _, _, _)
MulChunks(x, k, j, c) ==
    IF j = 0 THEN BitsOf(c, 15)
    ELSE CHOOSE r \in {MulChunks(x, k, j - 1, t \div 32768) \o BitsOf(t % 32768, 15) :
                          t \in {Chunk(x, j) * k + c}} : TRUE

MulBits(b, k) ==
    LET j == (Len(b) + 14) \div 15
    IN  Strip(MulChunks(Zeros(15 * j - Len(b)) \o b, k, j, 0))

\* the double nearest to an exact binary number, ties to even
RoundBin(p) ==
    LET b == Strip(p.bits)
        n == Len(b)
    IN  IF n = 0 THEN FZero
        ELSE IF n <= 53 THEN Bin(b \o Zeros(53 - n), p.exp - (53 - n))
        ELSE LET keep == SubSeq(b, 1, 53)
                 up == b[54] = 1 /\ (keep[53] = 1 \/ \E i \in 55..n : b[i] = 1)
                 s == Strip(AddBits(keep, <<1>>))
             IN  IF ~up THEN Bin(keep, p.exp + n - 53)
                 ELSE IF Len(s) = 54 THEN Bin(SubSeq(s, 1, 53), p.exp + n - 52)
                 ELSE Bin(s, p.exp + n - 53)

\* 10 * k binary places of r / d for r < d <= 2^21, then one more bit that
\* is 1 when the division has a remainder
RECURSIVE FracBits(_, _, _)
FracBits(r, d, k) ==
    IF k = 0 THEN <<IF r = 0 THEN 0 ELSE 1>>
    ELSE CHOOSE s \in {BitsOf(t \div d, 10) \o FracBits(t % d, d, k - 1) : t \in {1024 * r}} : TRUE

\* n / d for integers n >= 0 and 0 < d <= 2^21: Python's true division
fdiv(n, d) == RoundBin(Bin(BitsOf(n \div d, 31) \o FracBits(n % d, d, 8), -81))

\* float * k for a float k that is a small whole number
fmul(x, k) == RoundBin(Bin(MulBits(x.bits, k), x.exp))

\* float + float
fadd(x, y) ==
    IF x = FZero THEN y
    ELSE IF y = FZero THEN x
    ELSE LET e == IF x.exp < y.exp THEN x.exp ELSE y.exp
         IN  RoundBin(Bin(AddBits(x.bits \o Zeros(x.exp - e), y.bits \o Zeros(y.exp - e)), e))

\* float <= float
fle(x, y) ==
    \/ x = FZero
    \/ /\ y # FZero
       /\ \/ x.exp < y.exp
          \/ /\ x.exp = y.exp
             /\ \/ x.bits = y.bits
                \/ \E i \in 1..53 : /\ x.bits[i] < y.bits[i]
                                    /\ \A j \in 1..(i - 1) : x.bits[j] = y.bits[j]

\* round(x, 6) for 0 <= x < 2000: the decimal with 6 places nearest to x,
\* ties to even, and then the double nearest to that decimal
round6(x) ==
    IF x = FZero THEN FZero
    ELSE LET m == Zeros(1 - x.exp) \o MulBits(MulBits(x.bits, 1000), 1000)
             f == -x.exp
             whole == Strip(SubSeq(m, 1, Len(m) - f))
             frac == SubSeq(m, Len(m) - f + 1, Len(m))
             n == NatOf(whole)
             up == /\ frac # <<>>
                   /\ frac[1] = 1
                   /\ (n % 2 = 1 \/ \E i \in 2..Len(frac) : frac[i] = 1)
         IN  fdiv(IF up THEN n + 1 ELSE n, Million)

\* a _calculate_cost that returns the sum as it is, without round(..., 6)
calculate_cost_float_unrounded(input_tokens, output_tokens) ==
    LET input_cost == fmul(fdiv(input_tokens, Million), 3)
        output_cost == fmul(fdiv(output_tokens, Million), 15)
    IN  fadd(input_cost, output_cost)

\* _calculate_cost as it is computed, in floats
calculate_cost_float(input_tokens, output_tokens) ==
    LET input_cost == fmul(fdiv(input_tokens, Million), 3)
        output_cost == fmul(fdiv(output_tokens, Million), 15)
    IN  round6(fadd(input_cost, output_cost))

Tokens == 0..MaxTokens

Calc(stage, a, b, c, d, costs, total) ==
    [stage |-> stage, a |-> a, b |-> b, c |-> c, d |-> d, costs |-> costs, total |-> total]

\* the token counts of two calls
InitCost ==
    /\ pc = "open"
    /\ policy = CHOOSE pol \in FlowPolicies : TRUE
    /\ fs = [q \in Paths |-> Missing]
    /\ scan_out = NoScan
    /\ db_columns = AllColumns
    /\ audit_log = <<>>
    /\ seq_id = 0
    /\ now = 0
    /\ returned = <<>>
    /\ audit_out = NoAuditCall
    /\ run = <<>>
    /\ batch = EmptyBatch
    /\ backups = {}
    /\ conn = <<>>
    /\ \E a, b, c, d \in Tokens : calc = Calc("tokens", a, b, c, d, <<>>, FZero)

\* _calculate_cost for the first call, for the second, and for one call
\* that uses the tokens of both
CalculateCost ==
    /\ calc.stage = "tokens"
    /\ \E first \in {calculate_cost_float(calc.a, calc.b)},
          second \in {calculate_cost_float(calc.c, calc.d)},
          both \in {calculate_cost_float(calc.a + calc.c, calc.b + calc.d)} :
           calc' = [calc EXCEPT !.stage = "costs",
                                !.costs = [first |-> first, second |-> second, both |-> both]]
    /\ UNCHANGED <<pc, policy, fs, scan_out, db_columns, audit_log, seq_id, now, returned,
                   audit_out, run, batch, backups, conn>>

\* the costs of the two calls added up, as BatchResult.add_result does
\* with total_cost += cost
AddCosts ==
    /\ calc.stage = "costs"
    /\ \E total \in {fadd(calc.costs.first, calc.costs.second)} :
           calc' = [calc EXCEPT !.stage = "total", !.total = total]
    /\ UNCHANGED <<pc, policy, fs, scan_out, db_columns, audit_log, seq_id, now, returned,
                   audit_out, run, batch, backups, conn>>

NextCost == CalculateCost \/ AddCosts

SpecCost == InitCost /\ [][NextCost]_vars

\* C20 as stated: _calculate_cost(0, 0) is 0.0, the cost does not decrease
\* when a token count grows, and the cost of the tokens of two calls
\* together equals the sum of the costs of the two calls.
C20_CostAdditiveInFloats ==
    calc.stage = "total" =>
        /\ (calc.a = 0 /\ calc.b = 0 => calc.costs.first = FZero)
        /\ fle(calc.costs.first, calc.costs.both)
        /\ fle(calc.costs.second, calc.costs.both)
        /\ calc.total = calc.costs.both

\* C20 amended: _calculate_cost(0, 0) is 0.0, the cost is the float
\* nearest to (3 * input_tokens + 15 * output_tokens) / 1e6, it does not
\* decrease when a token count grows, and it is additive in millionths of
\* a dollar: the sum of the costs of two calls, rounded to 6 decimals, is
\* the cost of the tokens of both.
C20_CostLinearInMillionths ==
    calc.stage = "total" =>
        /\ (calc.a = 0 /\ calc.b = 0 => calc.costs.first = FZero)
        /\ calc.costs.first = fdiv(calculate_cost(calc.a, calc.b), Million)
        /\ calc.costs.second = fdiv(calculate_cost(calc.c, calc.d), Million)
        /\ calc.costs.both = fdiv(calculate_cost(calc.a, calc.b) + calculate_cost(calc.c, calc.d),
                                  Million)
        /\ fle(calc.costs.first, calc.costs.both)
        /\ fle(calc.costs.second, calc.costs.both)
        /\ round6(calc.total) = calc.costs.both

\* two calls with tokens whose float sum of costs is not the cost of the
\* tokens together
C20_Witness ==
    /\ calc.stage = "total"
    /\ calc.a + calc.b > 0
    /\ calc.c + calc.d > 0
    /\ calc.total # calc.costs.both

(***************************************************************************)
(* The queries by timeframe (SpecTime): records are appended while the     *)
(* clock moves on by half a second, an hour, a day, a week or a month.     *)
(***************************************************************************)
Timeframes == {"day", "week", "month", "all"}

StartTimes == {1}

TimeSteps == {0, 1, HourTicks, DayTicks - 1, 7 * DayTicks, 30 * DayTicks}

InitTime ==
    /\ pc = "open"
    /\ policy = CHOOSE pol \in FlowPolicies : TRUE
    /\ fs = [q \in Paths |-> Missing]
    /\ scan_out = NoScan
    /\ db_columns = AllColumns
    /\ audit_log = <<>>
    /\ seq_id = 0
    /\ now \in StartTimes
    /\ returned = <<>>
    /\ audit_out = NoAuditCall
    /\ run = <<>>
    /\ batch = EmptyBatch
    /\ backups = {}
    /\ conn = <<>>
    /\ calc = <<>>

\* log_action(...), and the time that passes after it
LogAndWait ==
    /\ Len(audit_log) < MaxTimed
    /\ \E a \in AuditArgs, dt \in TimeSteps :
           \E w \in {log_action(World, a, dt)} :
               /\ audit_log' = w.audit_log
               /\ seq_id' = w.seq_id
               /\ now' = w.now
               /\ returned' = w.returned
               /\ audit_out' = AuditCall("log_action", w.seq_id, 0, <<>>, <<>>)
    /\ UNCHANGED <<pc, policy, fs, scan_out, db_columns, run, batch, backups, conn, calc>>

\* get_logs_by_timeframe(timeframe, limit)
GetLogsByTimeframe ==
    /\ \E timeframe \in Timeframes, limit \in 1..MaxTimed :
           \E rows \in get_logs_by_timeframe(World, timeframe, limit) :
               audit_out' = AuditCall("get_logs_by_timeframe", 0, limit, rows,
                                      [timeframe |-> timeframe])
    /\ UNCHANGED <<pc, policy, fs, scan_out, db_columns, audit_log, seq_id, now, returned,
                   run, batch, backups, conn, calc>>

\* get_cost_over_time(timeframe)
GetCostOverTime ==
    /\ \E timeframe \in Timeframes :
           \E entries \in get_cost_over_time(World, timeframe) :
               audit_out' = AuditCall("get_cost_over_time", 0, 0, entries,
                                      [timeframe |-> timeframe])
    /\ UNCHANGED <<pc, policy, fs, scan_out, db_columns, audit_log, seq_id, now, returned,
                   run, batch, backups, conn, calc>>

NextTime == LogAndWait \/ GetLogsByTimeframe \/ GetCostOverTime \/ GetStatisticsByTimeframe

SpecTime == InitTime /\ [][NextTime]_vars

DaysOf(timeframe) ==
    CASE timeframe = "day" -> 1 [] timeframe = "week" -> 7 [] timeframe = "month" -> 30

Ids(rows) == {rows[i].id : i \in 1..Len(rows)}

\* what a call of get_logs_by_timeframe returned is the newest limit rows
\* of the window, newest first
NewestOf(window, rows, limit) ==
    /\ Ids(rows) \subseteq window
    /\ Len(rows) = Min(limit, Cardinality(window))
    /\ Cardinality(Ids(rows)) = Len(rows)
    /\ \A i \in 1..Len(rows) : \E k \in 1..Len(audit_log) : audit_log[k] = rows[i]
    /\ \A i, j \in 1..Len(rows) : i < j => rows[i].timestamp >= rows[j].timestamp
    /\ \A k \in 1..Len(audit_log) :
           audit_log[k].id \in window \ Ids(rows) =>
               \A i \in 1..Len(rows) : rows[i].timestamp >= audit_log[k].timestamp

\* day within week within month within all, for the results without a limit
Contained ==
    \A d \in get_logs_by_timeframe(World, "day", Len(audit_log)),
       k \in get_logs_by_timeframe(World, "week", Len(audit_log)),
       m \in get_logs_by_timeframe(World, "month", Len(audit_log)),
       a \in get_logs_by_timeframe(World, "all", Len(audit_log)) :
        /\ Ids(d) \subseteq Ids(k)
        /\ Ids(k) \subseteq Ids(m)
        /\ Ids(m) \subseteq Ids(a)
        /\ Ids(a) = Ids(audit_log)

\* C21 as stated: get_logs_by_timeframe returns the newest limit records
\* among exactly those whose timestamp is less than 1, 7 or 30 days before
\* the current time (all records for 'all'), and day is contained in week,
\* week in month, month in all.
C21_WindowIsExactSpan ==
    /\ audit_out.op = "get_logs_by_timeframe" =>
           LET timeframe == audit_out.stats.timeframe
               window == {audit_log[k].id : k \in
                             {k \in 1..Len(audit_log) :
                                 \/ timeframe = "all"
                                 \/ audit_log[k].timestamp > now - DaysOf(timeframe) * DayTicks}}
           IN  NewestOf(window, audit_out.rows, audit_out.limit)
    /\ Contained

\* C21 amended: the window is measured in whole seconds.  A record is in
\* it when its timestamp, cut to the second, is later than the current
\* time, cut to the second, less 1, 7 or 30 days; the rest as stated.
C21_WindowInWholeSeconds ==
    /\ audit_out.op = "get_logs_by_timeframe" =>
           LET timeframe == audit_out.stats.timeframe
               window == {audit_log[k].id : k \in
                             {k \in 1..Len(audit_log) :
                                 \/ timeframe = "all"
                                 \/ audit_log[k].timestamp \div SecondTicks
                                        > now \div SecondTicks
                                              - DaysOf(timeframe) * DayHours * HourSeconds}}
           IN  NewestOf(window, audit_out.rows, audit_out.limit)
    /\ Contained

\* a call for 'week' with room for every record that returned the one
\* record of the last week and left out an older one
C21_Witness ==
    /\ audit_out.op = "get_logs_by_timeframe"
    /\ audit_out.stats.timeframe = "week"
    /\ audit_out.limit = MaxTimed
    /\ Len(audit_log) = MaxTimed
    /\ Len(audit_out.rows) = 1

\* the bucket of a record: its hour for 'day', its day otherwise
BucketOf(timeframe, t) == IF timeframe = "day" THEN t \div HourTicks ELSE t \div DayTicks

\* the bucket an entry of get_cost_over_time names
BucketNamed(timeframe, date) ==
    IF timeframe = "day" THEN date.day * DayHours + date.hour ELSE date.day

\* what a call of get_cost_over_time returned has one entry per bucket
\* that holds a record of the timeframe, in ascending order, with the
\* number of records and the sum of their tokens
BucketsOf(timeframe, entries) ==
    LET rows == time_filter(World, timeframe)
        in_bucket(b) == SelectSeq(rows, LAMBDA r : BucketOf(timeframe, r.timestamp) = b)
    IN  /\ {BucketNamed(timeframe, entries[i].date) : i \in 1..Len(entries)}
               = {BucketOf(timeframe, rows[i].timestamp) : i \in 1..Len(rows)}
        /\ \A i, j \in 1..Len(entries) :
               i < j => BucketNamed(timeframe, entries[i].date)
                            < BucketNamed(timeframe, entries[j].date)
        /\ \A i \in 1..Len(entries) :
               LET mine == in_bucket(BucketNamed(timeframe, entries[i].date))
               IN  /\ entries[i].requests = Len(mine)
                   /\ entries[i].tokens = SumOf(mine, "tokens_used")
        /\ \A st \in get_statistics_by_timeframe(World, timeframe) :
               SumOf(entries, "requests") = st.total_requests

\* the cost of every entry differs from the sum of the costs of its
\* bucket by at most d millionths
CostsWithin(timeframe, entries, d) ==
    LET rows == time_filter(World, timeframe)
    IN  \A i \in 1..Len(entries) :
            LET sum == SumOf(SelectSeq(rows, LAMBDA r : BucketOf(timeframe, r.timestamp)
                                           = BucketNamed(timeframe, entries[i].date)), "cost")
            IN  /\ entries[i].cost - sum <= d
                /\ sum - entries[i].cost <= d

\* C22 as stated: get_cost_over_time returns one entry per non-empty
\* bucket, hourly for 'day' and daily otherwise, in ascending order, each
\* with the sums of cost, tokens and requests of its bucket, and the
\* requests add up to total_requests of get_statistics_by_timeframe.
C22_BucketsHoldSums ==
    audit_out.op = "get_cost_over_time" =>
        /\ BucketsOf(audit_out.stats.timeframe, audit_out.rows)
        /\ CostsWithin(audit_out.stats.timeframe, audit_out.rows, 0)

\* C22 amended: as stated, except that the cost of an entry is the sum of
\* its bucket rounded to 4 decimals, a multiple of 0.0001 within 0.00005
\* of the sum.
C22_BucketsHoldRoundedSums ==
    audit_out.op = "get_cost_over_time" =>
        /\ BucketsOf(audit_out.stats.timeframe, audit_out.rows)
        /\ CostsWithin(audit_out.stats.timeframe, audit_out.rows, 50)
        /\ \A i \in 1..Len(audit_out.rows) : audit_out.rows[i].cost % 100 = 0

\* get_cost_over_time('day') over two records of one day and different
\* hours: two entries, the cost of the successful one rounded
C22_Witness ==
    /\ audit_out.op = "get_cost_over_time"
    /\ audit_out.stats.timeframe = "day"
    /\ Len(audit_out.rows) = 2
    /\ audit_out.rows[1].date.day = audit_out.rows[2].date.day
    /\ \E i \in 1..2 : audit_out.rows[i].cost # 0 /\ audit_out.rows[i].tokens = 150

(***************************************************************************)
(* The order of the checks of scan_file (SpecScan).                        *)
(***************************************************************************)
\* C23: scan_file checks existence, then regular file, then the blocked
\* globs, then that the file can be read as text, then the content, and
\* its verdict is that of the first check that applies: a missing path or
\* a directory is an error whatever the globs say, a regular file with a
\* blocked path is a policy block without findings whatever is in it, an
\* unreadable or undecodable file with a free path is an error, and only a
\* readable text file with a free path gets a verdict from its content.
C23_FirstCheckDecides ==
    (scan_out.called /\ ~scan_out.out.raised) =>
        LET st == fs[scan_out.filepath]
            v == scan_out.out.verdict
            path_blocked == is_file_blocked(policy, scan_out.filepath).is_blocked
        IN  CASE st.kind = "missing" ->
                   /\ v.error /\ ~v.allowed /\ v.reason.kind = "File not found"
                   /\ v.findings = <<>>
              [] st.kind = "dir" ->
                   /\ v.error /\ ~v.allowed /\ v.reason.kind = "Not a file"
                   /\ v.findings = <<>>
              [] st.kind = "file" /\ path_blocked ->
                   /\ ~v.error /\ ~v.allowed /\ v.findings = <<>>
                   /\ v.reason.kind = "File path matches blocked pattern"
                   /\ ~scan_out.out.opened
              [] st.kind = "file" /\ ~path_blocked /\ ~st.readable ->
                   v.error /\ ~v.allowed /\ v.reason.kind = "Error reading file"
              [] st.kind = "file" /\ ~path_blocked /\ st.readable /\ ~Decodable(st.bytes) ->
                   /\ v.error /\ ~v.allowed
                   /\ v.reason.kind = "File is not a valid text file (binary content detected)"
              [] OTHER ->
                   /\ ~v.error
                   /\ v.allowed <=> v.findings = <<>>
                   /\ v.reason.kind \in {"Sensitive content detected",
                                         "No policy violations detected"}

\* a directory whose path matches a blocked glob was scanned: an error
C23_Witness ==
    /\ scan_out.called
    /\ fs[scan_out.filepath].kind = "dir"
    /\ is_file_blocked(policy, scan_out.filepath).is_blocked
    /\ scan_out.out.verdict.error

(***************************************************************************)
(* Error verdicts in the callers of scan_file (Spec).                      *)
(***************************************************************************)
\* the audit writes, done or refused, that the run made for file number idx
LogsOf(idx) == {l \in Steps("log") \cup Steps("log_failed") : run[l].idx = idx}

\* C24: a file whose scan gave an error verdict is audited with status
\* 'error' and never 'blocked' by the refactor command, the batch and the
\* demo: every audit write for it carries status 'error', a caller that
\* returns from the file has appended exactly one such record, and the
\* batch counts the file as failed; the files the batch counts as blocked
\* are files with a verdict that is not an error.
C24_ErrorNeverBlocked ==
    /\ \A s \in Steps("scan") :
           run[s].verdict.error =>
               /\ \A l \in LogsOf(run[s].idx) : run[l].status = "error"
               /\ \A l \in LogsOf(run[s].idx) \cap Steps("log") :
                      \E k \in 1..Len(audit_log) :
                          /\ audit_log[k].id = run[l].id
                          /\ audit_log[k].filepath = run[s].file
                          /\ audit_log[k].status = "error"
               /\ \A r \in Steps("return") :
                      run[r].idx = run[s].idx /\ run[r].status # "raised" =>
                          Cardinality(LogsOf(run[s].idx) \cap Steps("log")) = 1
               /\ run[s].file \in DOMAIN batch.file_results =>
                      batch.file_results[run[s].file].status = "failed"
    /\ batch.total_files > 0 =>
           /\ batch.blocked =
                  Cardinality({f \in DOMAIN batch.file_results :
                                  batch.file_results[f].status = "blocked"})
           /\ \A f \in DOMAIN batch.file_results :
                  batch.file_results[f].status = "blocked" =>
                      \E s \in Steps("scan") : run[s].file = f /\ ~run[s].verdict.error

\* a batch that met a file it could not scan and counted it as failed
C24_Witness ==
    /\ pc = "done"
    /\ batch.failed = 1
    /\ batch.blocked = 1
    /\ \E s \in Steps("scan") :
           /\ run[s].verdict.error
           /\ batch.file_results[run[s].file].status = "failed"
           /\ \E l \in Steps("log") : run[l].idx = run[s].idx /\ run[l].status = "error"

\* the demo met a file it could not scan and logged it as an error
C24_WitnessDemo ==
    /\ pc = "done"
    /\ \E l \in Steps("log") :
           /\ run[l].status = "error"
           /\ \E k \in 1..Len(audit_log) :
                  audit_log[k].id = run[l].id /\ audit_log[k].action = "demo_scan"

(***************************************************************************)
(* SpecParse: _parse_api_error on error messages of up to MaxWords words.  *)
(***************************************************************************)
MaxWords == 2

ErrorWords ==
    {"429", "Quota", "insufficient_quota", "401", "overloaded_error", "Timeout",
     "timed out", "Connection", "network", "boom"}

InitParse ==
    /\ pc = "open"
    /\ policy = CHOOSE pol \in FlowPolicies : TRUE
    /\ fs = [q \in Paths |-> Missing]
    /\ scan_out = NoScan
    /\ db_columns = AllColumns
    /\ audit_log = <<>>
    /\ seq_id = 0
    /\ now = 0
    /\ returned = <<>>
    /\ audit_out = NoAuditCall
    /\ run = <<>>
    /\ batch = EmptyBatch
    /\ backups = {}
    /\ conn = <<>>
    /\ \E error_str \in SeqsUpTo(ErrorWords, MaxWords) :
           calc = [stage |-> "raised", error_str |-> error_str, message |-> NoReason]

\* except Exception as e: ... self._parse_api_error(e)
ParseApiError ==
    /\ calc.stage = "raised"
    /\ calc' = [calc EXCEPT !.stage = "parsed", !.message = parse_api_error(calc.error_str)]
    /\ UNCHANGED <<pc, policy, fs, scan_out, db_columns, audit_log, seq_id, now, returned,
                   audit_out, run, batch, backups, conn>>

NextParse == ParseApiError

SpecParse == InitParse /\ [][NextParse]_vars

\* the tests of _parse_api_error in their order: the message of the
\* category, the words looked for as they are and those looked for in the
\* lower-cased text
ErrorTests ==
    << [message |-> "Rate limit exceeded", exact |-> {"rate_limit_error", "429"}, lower |-> {}],
       [message |-> "API quota exceeded", exact |-> {"insufficient_quota"}, lower |-> {"quota"}],
       [message |-> "Invalid API key",
        exact |-> {"invalid_api_key", "authentication_error", "401"}, lower |-> {}],
       [message |-> "Anthropic's API is temporarily overloaded",
        exact |-> {"overloaded_error", "529"}, lower |-> {}],
       [message |-> "Request timed out", exact |-> {}, lower |-> {"timeout", "timed out"}],
       [message |-> "Network error", exact |-> {}, lower |-> {"network", "connection"}] >>

\* the tests that error_str matches
MatchingTests(error_str) ==
    {k \in 1..Len(ErrorTests) :
        \E i \in 1..Len(error_str) :
            \/ error_str[i] \in ErrorTests[k].exact
            \/ LowerWord(error_str[i]) \in ErrorTests[k].lower}

\* C26: _parse_api_error gives every raw error exactly one message: that
\* of the earliest test the text matches, in the order rate limit, quota,
\* authentication, overloaded, timeout, network, and the unknown category
\* with the raw text when it matches none.
C26_EarliestCategoryWins ==
    calc.stage = "parsed" =>
        LET hits == MatchingTests(calc.error_str)
        IN  IF hits = {}
            THEN calc.message = Reason("API error", calc.error_str, <<>>)
            ELSE \E k \in hits :
                     /\ \A j \in hits : k <= j
                     /\ calc.message = Reason(ErrorTests[k].message, <<>>, <<>>)

\* an error that matches the quota test and the rate limit test was given
\* the rate limit message
C26_Witness ==
    /\ calc.stage = "parsed"
    /\ {1, 2} \subseteq MatchingTests(calc.error_str)
    /\ calc.message.kind = "Rate limit exceeded"

(***************************************************************************)
(* Dry runs (Spec).                                                        *)
(***************************************************************************)
\* the run is a dry run
DryRun == \E o \in Steps("options") : run[o].opts.dry_run

\* in a dry run no generation call is made and nothing is backed up or
\* saved; a file with an allowed verdict that the flow returns from has
\* one audit record, of action 'scan' and status 'allowed', and the batch
\* counts it as skipped
DryRunState ==
    DryRun =>
        /\ Steps("generate") = {} /\ Steps("answer") = {}
        /\ Steps("backup") = {} /\ Steps("save") = {}
        /\ backups = {}
        /\ \A s \in Steps("scan"), r \in Steps("return") :
               (/\ run[r].idx = run[s].idx
                /\ run[r].status # "raised"
                /\ ~run[s].verdict.error
                /\ run[s].verdict.allowed) =>
                   /\ Cardinality(LogsOf(run[s].idx)) = 1
                   /\ \A l \in LogsOf(run[s].idx) :
                          /\ run[l].ev = "log"
                          /\ \E k \in 1..Len(audit_log) :
                                 /\ audit_log[k].id = run[l].id
                                 /\ audit_log[k].filepath = run[s].file
                                 /\ audit_log[k].action = "scan"
                                 /\ audit_log[k].status = "allowed"
                   /\ batch.total_files > 0 =>
                          batch.file_results[run[s].file].status = "skipped"
        /\ batch.skipped =
               Cardinality({f \in DOMAIN batch.file_results :
                               batch.file_results[f].status = "skipped"})
        /\ batch.successful = 0

\* C27: in dry-run mode no generation call is made and no file is written
\* or backed up, whatever the files, the verdicts and the other options;
\* an allowed file ends with one audit record of action 'scan' and status
\* 'allowed', and the batch counts it as skipped.
C27_DryRunTouchesNothing ==
    /\ []DryRunState
    /\ [][(\E o \in 1..Len(run') : run'[o].ev = "options" /\ run'[o].opts.dry_run)
              => fs' = fs /\ backups' = backups]_vars

\* a dry run with --apply of a batch with an allowed file and a refused one
C27_Witness ==
    /\ pc = "done"
    /\ \E o \in Steps("options") : run[o].opts.dry_run /\ run[o].opts.apply
    /\ batch.skipped = 1
    /\ batch.total_files = 2
    /\ \E l \in Steps("log") : run[l].status = "allowed"

(***************************************************************************)
(* The batch result (Spec).                                                *)
(***************************************************************************)
\* process_files has returned its BatchResult
BatchReturned ==
    /\ pc = "done"
    /\ batch.total_files > 0
    /\ \A r \in Steps("return") : run[r].status # "raised"

\* the files whose result has this status
FilesWith(status) ==
    {f \in DOMAIN batch.file_results : batch.file_results[f].status = status}

RECURSIVE SumOver(_, _)
SumOver(S, field) ==
    IF S = {} THEN 0
    ELSE LET f == CHOOSE x \in S : TRUE
         IN  batch.file_results[f][field] + SumOver(S \ {f}, field)

\* C28: after process_files has returned, every file handed to it has one
\* of the statuses success, failed, blocked and skipped, each counter is
\* the number of files of its status, so that the four add up to
\* total_files, and total_cost and total_tokens are the sums over the
\* successful files.
C28_CountersAddUp ==
    BatchReturned =>
        /\ Cardinality(DOMAIN batch.file_results) = batch.total_files
        /\ \A f \in DOMAIN batch.file_results :
               batch.file_results[f].status \in {"success", "failed", "blocked", "skipped"}
        /\ batch.successful = Cardinality(FilesWith("success"))
        /\ batch.failed = Cardinality(FilesWith("failed"))
        /\ batch.blocked = Cardinality(FilesWith("blocked"))
        /\ batch.skipped = Cardinality(FilesWith("skipped"))
        /\ batch.successful + batch.failed + batch.blocked + batch.skipped = batch.total_files
        /\ batch.total_cost = SumOver(FilesWith("success"), "cost")
        /\ batch.total_tokens = SumOver(FilesWith("success"), "tokens_used")

\* a batch of one refactored file and one file whose generation call failed
C28_Witness ==
    /\ BatchReturned
    /\ batch.successful = 1
    /\ batch.failed = 1
    /\ batch.total_cost > 0

\* the audit records this run has appended
AppendedRows == SelectSeq(audit_log, LAMBDA r : \E l \in Steps("log") : run[l].id = r.id)

\* C29: after process_files, total_cost and total_tokens of the batch
\* result are the sums of cost and tokens_used over the audit records
\* appended during the batch, and the number of successful files is the
\* number of records appended with status 'success'.
C29_BatchAgreesWithAudit ==
    BatchReturned =>
        /\ batch.total_cost = SumOf(AppendedRows, "cost")
        /\ batch.total_tokens = SumOf(AppendedRows, "tokens_used")
        /\ batch.successful =
               Len(SelectSeq(AppendedRows, LAMBDA r : r.status = "success"))

(***************************************************************************)
(* When a source file is overwritten (Spec).                               *)
(***************************************************************************)
\* the run makes backups
BackupsEnabled == \E o \in Steps("options") : ~run[o].opts.no_backup

\* every save follows a successful generation call for the same file and,
\* with backups enabled, a backup of it; no file with a blocked or error
\* verdict, a failed generation call or a declined confirmation is saved
SavesInOrder ==
    /\ \A sv \in Steps("save") :
           /\ \E a \in Steps("answer") :
                  /\ a < sv
                  /\ run[a].idx = run[sv].idx
                  /\ run[a].file = run[sv].file
                  /\ run[a].result.success
                  /\ run[a].result.refactored_code = run[sv].code
           /\ BackupsEnabled =>
                  /\ \E b \in Steps("backup") :
                         b < sv /\ run[b].idx = run[sv].idx /\ run[b].file = run[sv].file
                  /\ \E c \in backups : c.of = run[sv].file
    /\ \A s \in Steps("scan"), sv \in Steps("save") :
           run[s].verdict.error \/ ~run[s].verdict.allowed => run[sv].idx # run[s].idx
    /\ \A a \in Steps("answer"), sv \in Steps("save") :
           ~run[a].result.success => run[sv].idx # run[a].idx
    /\ \A r \in Steps("return"), sv \in Steps("save") :
           run[r].status = "not_applied" => run[sv].idx # run[r].idx

\* a file changes only by a save of this step, which leaves the generated
\* text in it and, with backups enabled, a copy of what it held
ChangedBySave ==
    \A f \in Paths :
        fs'[f] # fs[f] =>
            /\ \E sv \in 1..Len(run') :
                   /\ run'[sv].ev = "save"
                   /\ run'[sv].file = f
                   /\ fs'[f] = RegularFile(run'[sv].code, TRUE)
            /\ (\E o \in 1..Len(run') : run'[o].ev = "options" /\ ~run'[o].opts.no_backup)
                   => [of |-> f, bytes |-> fs[f].bytes] \in backups'

\* C30: save_refactored overwrites a file only after a successful
\* generation call for that file in the same run and, when backups are
\* enabled, only after a backup copy of the original has been made; a
\* blocked or error verdict, a failed generation call or a declined
\* confirmation leaves the file unchanged.
C30_SaveAfterGenerationAndBackup ==
    /\ []SavesInOrder
    /\ [][ChangedBySave]_vars

\* a batch with backups that saved one file and left alone the file whose
\* generation call failed
C30_Witness ==
    /\ pc = "done"
    /\ BackupsEnabled
    /\ Steps("save") # {}
    /\ backups # {}
    /\ \E a \in Steps("answer") : ~run[a].result.success

(***************************************************************************)
(* Timestamps and ids of the audit records (SpecConc).                     *)
(***************************************************************************)
\* C25: the timestamp of every record is a value the clock had during its
\* log_action call, not a value of the caller; of two records appended one
\* after the other the later one has the larger id and a timestamp that
\* is not earlier, so that get_recent_logs, which orders by timestamp
\* descending, returns the rows by descending id.
C25_TimestampsFollowIds ==
    /\ \A i \in 1..Len(audit_log) : audit_log[i].timestamp <= now
    /\ \A i, j \in 1..Len(audit_log) :
           i < j => /\ audit_log[i].id < audit_log[j].id
                    /\ audit_log[i].timestamp <= audit_log[j].timestamp
    /\ audit_out.op = "get_recent_logs" =>
           \A i, j \in 1..Len(audit_out.rows) :
               i < j => audit_out.rows[i].id > audit_out.rows[j].id

====
